---------------------------- MODULE Spec2Model ----------------------------
(***************************************************************************)
(* Model of plex_poster_downloader.py: the asset path resolver, the        *)
(* history ledger, the completion classifier, the reconciliation pass of   *)
(* view_library with the ledger's concurrent writers, and the migration    *)
(* between the two layout styles.                                          *)
(*                                                                         *)
(* Strings that the program formats, parses or filters are sequences of    *)
(* one-character strings, so sanitising, zero padding, joining and key     *)
(* building are computed the way the code computes them.  Enumerations     *)
(* (item type, layout style, artifact kind) are plain TLA+ strings.        *)
(***************************************************************************)
EXTENDS Integers, Sequences, FiniteSets, TLC

VARIABLES
    cfgStyle,    \* config.json: ASSET_STYLE
    cfgBaseDir,  \* config.json: DOWNLOAD_BASE_DIR
    disk,        \* paths that exist below the asset root
    histFile,    \* content of the history (ledger) file
    args,        \* inputs of the get_target_file_path calls under study
    cur,         \* outcome of the latest get_target_file_path call
    prev,        \* outcome of the call before it
    loaded,      \* outcome of the latest load_history_data call
    status,      \* outcome of the latest get_item_status call
    last,        \* the latest ledger mutation: operation, inputs, ledger before, return value
    procs,       \* per request thread: position in its load-mutate-save sequence and its locals
    mig,         \* the latest migrate_assets request: inputs and outcome
    cron,        \* run_cron_job: the sweep in progress, what the sweeps wrote; the latest fetch
    sched,       \* scheduler_loop: the schedule in config.json, the clock, last_run_date
    web,         \* the account in config.json and the latest HTTP request
    folder,      \* the latest get_physical_folder_name call: the item and the outcome
    pair         \* two artifacts and the paths they were resolved to

vars == <<cfgStyle, cfgBaseDir, disk, histFile, args, cur, prev, loaded, status, last,
          procs, mig, cron, sched, web, folder, pair>>

-----------------------------------------------------------------------------
(* Bounds of the model *)

MaxSeasons == 1     \* seasons of the show whose posters the disk may hold
MaxFiles == 2       \* paths present on disk at once
MaxOverrides == 2   \* length of the ledger's overrides list
MaxFlagged == 1     \* the same, where the classifier runs against the disk
MaxDownloads == 2   \* entries of the ledger's downloads map
MaxElems == 2       \* elements of a ledger file that holds a JSON list
MaxBlocked == 1     \* files that cannot be moved and directories that cannot be listed
MaxRuns == 2        \* sweeps of the bulk-download job

-----------------------------------------------------------------------------
(* String literals of the source *)

s_poster_jpg == <<"p", "o", "s", "t", "e", "r", ".", "j", "p", "g">>
s_background_jpg == <<"b", "a", "c", "k", "g", "r", "o", "u", "n", "d", ".", "j", "p", "g">>
s_background_suffix == <<"_", "b", "a", "c", "k", "g", "r", "o", "u", "n", "d">>
s_jpg == <<".", "j", "p", "g">>
s_Season == <<"S", "e", "a", "s", "o", "n">>
s_SeasonSpace == <<"S", "e", "a", "s", "o", "n", " ">>
s_Unknown_Folder == <<"U", "n", "k", "n", "o", "w", "n", "_", "F", "o", "l", "d", "e", "r">>
s_Unknown_Type == <<"U", "n", "k", "n", "o", "w", "n", "_", "T", "y", "p", "e">>
s_bg == <<"_", "b", "g">>
s_downloads == <<"d", "o", "w", "n", "l", "o", "a", "d", "s">>
s_overrides == <<"o", "v", "e", "r", "r", "i", "d", "e", "s">>
sep == "/"

DATA_DIR == <<"/", "d">>
DefaultBaseDir == <<"/", "d", "/", "p">>
DefaultStyle == "ASSET_FOLDERS"

ForbiddenChars == {"<", ">", ":", "\"", "/", "\\", "|", "?", "*"}
Whitespace == {" "}
DigitChars == <<"0", "1", "2", "3", "4", "5", "6", "7", "8", "9">>

-----------------------------------------------------------------------------
(* Python string and os.path primitives *)

RECURSIVE StrOfInt(_)
StrOfInt(n) ==
    IF n < 10 THEN <<DigitChars[n + 1]>>
    ELSE StrOfInt(n \div 10) \o <<DigitChars[(n % 10) + 1]>>

Format02d(n) ==
    LET s == StrOfInt(n)
    IN  IF Len(s) < 2 THEN <<"0">> \o s ELSE s

RECURSIVE RStrip(_, _)
RStrip(s, chars) ==
    IF s # <<>> /\ s[Len(s)] \in chars THEN RStrip(SubSeq(s, 1, Len(s) - 1), chars) ELSE s

RECURSIVE LStrip(_, _)
LStrip(s, chars) ==
    IF s # <<>> /\ s[1] \in chars THEN LStrip(Tail(s), chars) ELSE s

Strip(s) == LStrip(RStrip(s, Whitespace), Whitespace)

IsKept(c) == c \notin ForbiddenChars

RFindSep(p) ==
    LET hits == {i \in 1..Len(p) : p[i] = sep}
    IN  IF hits = {} THEN 0 ELSE CHOOSE i \in hits : \A j \in hits : j <= i

basename(p) == SubSeq(p, RFindSep(p) + 1, Len(p))

dirname(p) ==
    LET head == SubSeq(p, 1, RFindSep(p))
    IN  IF head # <<>> /\ (\E i \in 1..Len(head) : head[i] # sep)
        THEN RStrip(head, {sep})
        ELSE head

isabs(p) == p # <<>> /\ p[1] = sep

join2(a, b) ==
    IF isabs(b) THEN b
    ELSE IF a = <<>> \/ a[Len(a)] = sep THEN a \o b
    ELSE a \o <<sep>> \o b

RECURSIVE join(_)
join(parts) ==
    IF Len(parts) = 1 THEN parts[1]
    ELSE join(<<join2(parts[1], parts[2])>> \o SubSeq(parts, 3, Len(parts)))

sanitize_filename(name) == Strip(SelectSeq(name, IsKept))

-----------------------------------------------------------------------------
(* The catalog: the items the media server reports.  An item carries what  *)
(* the program reads from it: ratingKey, type, section().title, locations, *)
(* index, show() (parentKey), seasons() and episodes() (the locations of   *)
(* each episode).  broken: reading the item's locations or episodes raises.*)
(* Show 8 lives in a folder whose name ends like a season file's stem.     *)

LibTV == <<"T", "V">>
LibMovies == <<" ", "M", ":", "v", " ">>

MkItem(k, t, lib, locs, idx, parent, seasonKeys, eps, brk) ==
    [ratingKey |-> k, type |-> t, section |-> lib, locations |-> locs, index |-> idx,
     parentKey |-> parent, seasons |-> seasonKeys, episodes |-> eps, broken |-> brk]

SeasonKeys == {20 + j : j \in 1..MaxSeasons}
SeasonIndex(j) == IF j = 1 THEN 12 ELSE IF j = 2 THEN 3 ELSE 100 + j

ItemKeys == {1, 2, 3, 4, 5, 6, 7, 8, 71, 72} \cup SeasonKeys
\* the items whose status the model asks for
StatusItems == {1, 2, 3, 4, 5} \cup SeasonKeys

EpisodeLoc == <<"/", "t", "/", "S", "1", "/", "S", "e", "a", "s", "o", "n", " ", "1", "/", "e", ".", "m", "k", "v">>

Item(k) ==
    CASE k = 1 -> MkItem(1, "movie", LibMovies,
                         << <<"/", "m", "/", "A", ":", "b", "/", "f", ".", "m", "k", "v">> >>,
                         0, 0, <<>>, <<>>, FALSE)
      [] k = 2 -> MkItem(2, "show", LibTV, << <<"/", "t", "/", "S", "1", "/">> >>,
                         0, 0, [j \in 1..MaxSeasons |-> 20 + j], <<>>, FALSE)
      [] k = 3 -> MkItem(3, "show", LibTV, << <<"/", "t", "/", "Q">> >>,
                         0, 0, <<>>, <<>>, FALSE)
      [] k = 4 -> MkItem(4, "episode", LibTV, << EpisodeLoc >>, 1, 21, <<>>, <<>>, FALSE)
      [] k = 5 -> MkItem(5, "movie", LibMovies, <<>>, 0, 0, <<>>, <<>>, FALSE)
      [] k = 6 -> MkItem(6, "movie", LibMovies, <<>>, 0, 0, <<>>, <<>>, TRUE)
      [] k = 7 -> MkItem(7, "show", LibTV, << <<"/", "t", "/", "W">> >>,
                         0, 0, <<71, 72>>, <<>>, FALSE)
      [] k = 8 -> MkItem(8, "show", LibTV,
                         << <<"/", "t", "/", "R", "_", "S", "e", "a", "s", "o", "n", "1">> >>,
                         0, 0, <<>>, <<>>, FALSE)
      [] k = 9 -> MkItem(9, "movie", LibMovies,
                         << <<"/", "m", "/", "A", ":", "b">> \o s_background_suffix
                            \o <<"/", "f", ".", "m", "k", "v">> >>,
                         0, 0, <<>>, <<>>, FALSE)
      [] k = 10 -> MkItem(10, "show", LibTV,
                          << <<"/", "t", "/", "S", "1", "_">> \o s_Season \o <<"1", "2">> >>,
                          0, 0, <<>>, <<>>, FALSE)
      [] k = 71 -> MkItem(71, "season", LibTV, <<>>, 0, 7, <<>>, <<>>, FALSE)
      [] k = 72 -> MkItem(72, "season", LibTV, <<>>, 104, 7, <<>>,
                          << << <<"/", "t", "/", "W", "/", "s", "/", "e">> >> >>, FALSE)
      [] OTHER -> MkItem(k, "season", LibTV, <<>>, SeasonIndex(k - 20), 2, <<>>,
                         << << EpisodeLoc >> >>, FALSE)

-----------------------------------------------------------------------------
(* Path resolution *)

\* get_physical_folder_name without its try/except: what the body raises
\* reaches the caller
Raised == <<"Traceback">>

get_physical_folder_name_unguarded(item) ==
    IF item.type \in {"movie", "show", "season"} /\ item.broken THEN Raised
    ELSE IF item.type = "movie" THEN
        IF item.locations # <<>>
        THEN basename(dirname(item.locations[1]))
        ELSE s_Unknown_Type
    ELSE IF item.type = "show" THEN
        IF item.locations # <<>>
        THEN basename(RStrip(item.locations[1], {sep}))
        ELSE s_Unknown_Type
    ELSE IF item.type = "season" THEN
        IF item.episodes # <<>>
        THEN IF item.episodes[1] = <<>>
             THEN Raised
             ELSE basename(dirname(item.episodes[1][1]))
        ELSE s_SeasonSpace \o StrOfInt(item.index)
    ELSE s_Unknown_Type

get_physical_folder_name(item) ==
    IF item.type \in {"movie", "show", "season"} /\ item.broken THEN s_Unknown_Folder
    ELSE IF item.type = "movie" THEN
        IF item.locations # <<>>
        THEN basename(dirname(item.locations[1]))
        ELSE s_Unknown_Type
    ELSE IF item.type = "show" THEN
        IF item.locations # <<>>
        THEN basename(RStrip(item.locations[1], {sep}))
        ELSE s_Unknown_Type
    ELSE IF item.type = "season" THEN
        IF item.episodes # <<>>
        THEN IF item.episodes[1] = <<>>
             THEN s_Unknown_Folder
             ELSE basename(dirname(item.episodes[1][1]))
        ELSE s_SeasonSpace \o StrOfInt(item.index)
    ELSE s_Unknown_Type

\* base_dir as lines 190-194 compute it from the configuration
base_dir_of(configured) ==
    IF ~isabs(configured) /\ DATA_DIR # <<".">> THEN join(<<DATA_DIR, configured>>) ELSE configured

\* item_path with the Flat poster given a suffix of its own
item_path_suffixed(base_dir, clean_lib, folder_name, current_style, img_type) ==
    LET filename == IF img_type = "poster" THEN s_poster_jpg ELSE s_background_jpg
    IN  IF current_style = "NO_ASSET_FOLDERS"
        THEN LET suffix == IF img_type = "poster" THEN <<"_", "p">> ELSE s_background_suffix
             IN  join(<<base_dir, clean_lib, folder_name \o suffix \o s_jpg>>)
        ELSE join(<<base_dir, clean_lib, folder_name, filename>>)

\* item_path that names the file the same for every artifact kind
item_path_kind_blind(base_dir, clean_lib, folder_name, current_style, img_type) ==
    IF current_style = "NO_ASSET_FOLDERS"
    THEN join(<<base_dir, clean_lib, folder_name \o s_jpg>>)
    ELSE join(<<base_dir, clean_lib, folder_name, s_poster_jpg>>)

\* the movie branch and the show branch, which are the same code
item_path(base_dir, clean_lib, folder_name, current_style, img_type) ==
    LET filename == IF img_type = "poster" THEN s_poster_jpg ELSE s_background_jpg
    IN  IF current_style = "NO_ASSET_FOLDERS"
        THEN LET suffix == IF img_type = "poster" THEN <<>> ELSE s_background_suffix
             IN  join(<<base_dir, clean_lib, folder_name \o suffix \o s_jpg>>)
        ELSE join(<<base_dir, clean_lib, folder_name, filename>>)

\* season_path with a sub-folder per season under ASSET_FOLDERS
season_path_subfolder(base_dir, clean_lib, item, current_style, img_type) ==
    LET show == Item(item.parentKey)
        show_folder == get_physical_folder_name(show)
        season_str == s_Season \o Format02d(item.index)
    IN  IF current_style = "NO_ASSET_FOLDERS"
        THEN LET suffix == IF img_type = "poster" THEN <<>> ELSE s_background_suffix
             IN  join(<<base_dir, clean_lib, show_folder \o <<"_">> \o season_str \o suffix \o s_jpg>>)
        ELSE join(<<base_dir, clean_lib, show_folder, season_str,
                    IF img_type = "poster" THEN s_poster_jpg ELSE s_background_jpg>>)

\* the season branch
season_path(base_dir, clean_lib, item, current_style, img_type) ==
    LET show == Item(item.parentKey)
        show_folder == get_physical_folder_name(show)
        season_str == s_Season \o Format02d(item.index)
    IN  IF current_style = "NO_ASSET_FOLDERS"
        THEN LET suffix == IF img_type = "poster" THEN <<>> ELSE s_background_suffix
             IN  join(<<base_dir, clean_lib, show_folder \o <<"_">> \o season_str \o suffix \o s_jpg>>)
        ELSE LET name == IF img_type = "poster"
                         THEN season_str \o s_jpg
                         ELSE season_str \o s_background_suffix \o s_jpg
             IN  join(<<base_dir, clean_lib, show_folder, name>>)

\* current_style_of guessing the style from what is on disk
current_style_probed(style) ==
    IF style # "NONE" THEN style
    ELSE IF disk # {} THEN "NO_ASSET_FOLDERS" ELSE cfgStyle

\* current_style: the style argument, or the configured style when it is omitted
current_style_of(style) == IF style # "NONE" THEN style ELSE cfgStyle

\* style "NONE" and lib_title <<>> are the omitted (None) arguments; the result <<>> is None
get_target_file_path(item, lib_title, style, img_type) ==
    LET base_dir == base_dir_of(cfgBaseDir)
        current_style == current_style_of(style)
        title == IF lib_title = <<>> THEN item.section ELSE lib_title
        clean_lib == sanitize_filename(title)
    IN  IF item.type \in {"movie", "show"}
        THEN item_path(base_dir, clean_lib, get_physical_folder_name(item), current_style, img_type)
        ELSE IF item.type = "season"
        THEN season_path(base_dir, clean_lib, item, current_style, img_type)
        ELSE <<>>

\* check_file_exists looking only where the default style puts the file
check_file_exists_default_style(item, lib_title, img_type) ==
    LET target_path == get_target_file_path(item, lib_title, DefaultStyle, img_type)
    IN  IF target_path # <<>> THEN target_path \in disk ELSE FALSE

\* check_file_exists that looks for the background whatever kind is asked for
check_file_exists_background_only(item, lib_title, img_type) ==
    LET target_path == get_target_file_path(item, lib_title, "NONE", "background")
    IN  IF target_path # <<>> THEN target_path \in disk ELSE FALSE

check_file_exists(item, lib_title, img_type) ==
    LET target_path == get_target_file_path(item, lib_title, "NONE", img_type)
    IN  IF target_path # <<>> THEN target_path \in disk ELSE FALSE

-----------------------------------------------------------------------------
(* The history ledger.  A JSON document is a record: t is its type; for a  *)
(* dict, keys are its top-level keys, D the value of "downloads" (a map    *)
(* from key strings to URLs) and O the value of "overrides" (a list of     *)
(* strings); for a list, elems are its elements; for a str, its            *)
(* characters.  "absent": no file; "garbage": not parseable as JSON;      *)
(* "null", "num", "bool": the JSON scalars.                                *)

EmptyMap == [k \in {} |-> "none"]

JDoc(t, keys, D, O, elems) == [t |-> t, keys |-> keys, D |-> D, O |-> O, elems |-> elems]

JAbsent == JDoc("absent", {}, EmptyMap, <<>>, <<>>)
JNone == JDoc("none", {}, EmptyMap, <<>>, <<>>)
EmptyLedger == JDoc("dict", {"downloads", "overrides"}, EmptyMap, <<>>, <<>>)

IsSubstring(w, s) == \E i \in 0..(Len(s) - Len(w)) : SubSeq(s, i + 1, i + Len(w)) = w

\* Python's `word in data` for a dict, a list and a str
Contains(data, word, wordChars) ==
    CASE data.t = "dict" -> word \in data.keys
      [] data.t = "list" -> \E i \in 1..Len(data.elems) : data.elems[i] = word
      [] OTHER -> IsSubstring(wordChars, data.elems)

load_history_data(file) ==
    IF file.t = "absent" THEN EmptyLedger
    ELSE IF file.t \in {"garbage", "null", "num", "bool"} THEN EmptyLedger
    ELSE IF file.t \in {"list", "str"} THEN
        IF ~Contains(file, "downloads", s_downloads) THEN EmptyLedger
        ELSE IF ~Contains(file, "overrides", s_overrides) THEN EmptyLedger
        ELSE file
    ELSE [file EXCEPT !.keys = @ \cup {"downloads", "overrides"},
                      !.D = IF "downloads" \in file.keys THEN @ ELSE EmptyMap,
                      !.O = IF "overrides" \in file.keys THEN @ ELSE <<>>]

MapPut(D, key, val) == [k \in (DOMAIN D) \cup {key} |-> IF k = key THEN val ELSE D[k]]

RECURSIVE RemoveFirst(_, _)
RemoveFirst(seq, x) ==
    IF seq = <<>> THEN <<>>
    ELSE IF Head(seq) = x THEN Tail(seq)
    ELSE <<Head(seq)>> \o RemoveFirst(Tail(seq), x)

InSeq(x, seq) == \E i \in 1..Len(seq) : seq[i] = x

\* history_key without the suffix
history_key_bare(rating_key, img_type) == rating_key

history_key(rating_key, img_type) ==
    IF img_type = "poster" THEN rating_key ELSE rating_key \o s_bg

\* the ledger that save_download_history writes back
save_download_history(data, rating_key, img_url, img_type) ==
    [data EXCEPT !.D = MapPut(@, history_key(rating_key, img_type), img_url)]

\* toggle_override_status that leaves a present id in the list
toggle_override_status_kept(data, rk_str) ==
    IF InSeq(rk_str, data.O)
    THEN [data |-> data, status |-> FALSE]
    ELSE [data |-> [data EXCEPT !.O = Append(@, rk_str)], status |-> TRUE]

\* toggle_override_status that appends the id whether it is present or not
toggle_override_status_appending(data, rk_str) ==
    [data |-> [data EXCEPT !.O = Append(@, rk_str)], status |-> TRUE]

\* the ledger that toggle_override_status writes back, and its return value
toggle_override_status(data, rk_str) ==
    IF InSeq(rk_str, data.O)
    THEN [data |-> [data EXCEPT !.O = RemoveFirst(@, rk_str)], status |-> FALSE]
    ELSE [data |-> [data EXCEPT !.O = Append(@, rk_str)], status |-> TRUE]

\* is_overridden looking the id up among the downloads
is_overridden_downloads(rating_key) ==
    StrOfInt(rating_key) \in DOMAIN load_history_data(histFile).D

is_overridden(rating_key) ==
    InSeq(StrOfInt(rating_key), load_history_data(histFile).O)

\* show_status that does not look at the show's own poster
show_status_seasons_only(has_show_poster, downloaded, total) ==
    IF downloaded = total THEN "complete"
    ELSE IF downloaded = 0 THEN "missing"
    ELSE "partial"

\* the three-way decision for a show
show_status(has_show_poster, downloaded, total) ==
    IF has_show_poster /\ downloaded = total THEN "complete"
    ELSE IF ~has_show_poster /\ downloaded = 0 THEN "missing"
    ELSE "partial"

\* get_item_status that asks a movie for its background as well
get_item_status_with_background(item, lib_title) ==
    IF is_overridden(item.ratingKey) THEN "complete"
    ELSE IF item.type = "movie" THEN
        IF check_file_exists(item, lib_title, "poster") /\ check_file_exists(item, lib_title, "background")
        THEN "complete" ELSE "missing"
    ELSE "missing"

get_item_status(item, lib_title) ==
    IF is_overridden(item.ratingKey) THEN "complete"
    ELSE IF item.type = "movie" THEN
        IF check_file_exists(item, lib_title, "poster") THEN "complete" ELSE "missing"
    ELSE IF item.type = "show" THEN
        LET has_show_poster == check_file_exists(item, lib_title, "poster")
            seasons == item.seasons
            total == Len(seasons)
            downloaded == Cardinality({i \in 1..total :
                              check_file_exists(Item(seasons[i]), lib_title, "poster")})
        IN  show_status(has_show_poster, downloaded, total)
    ELSE "missing"

-----------------------------------------------------------------------------
(* The reconciliation pass of view_library and the writers of the ledger   *)

\* save_history_data that keeps what the file holds beside the dictionary it is given
save_history_data_merged(data) ==
    LET file == load_history_data(histFile)
        O2 == SelectSeq(file.O, LAMBDA x : ~InSeq(x, data.O))
    IN  [data EXCEPT !.D = [k \in (DOMAIN file.D) \cup (DOMAIN data.D) |->
                               IF k \in DOMAIN data.D THEN data.D[k] ELSE file.D[k]],
                     !.O = data.O \o O2]

\* what save_history_data leaves in the ledger file: the dictionary it is
\* given, whatever the file held
save_history_data(data) == data

\* str.isdigit() and int() of a ledger key
IsDigitStr(s) ==
    /\ s # <<>>
    /\ \A i \in 1..Len(s) : \E d \in 1..Len(DigitChars) : DigitChars[d] = s[i]

DigitVal(c) == (CHOOSE d \in 1..Len(DigitChars) : DigitChars[d] = c) - 1

RECURSIVE IntOfStr(_)
IntOfStr(s) ==
    IF s = <<>> THEN 0
    ELSE 10 * IntOfStr(SubSeq(s, 1, Len(s) - 1)) + DigitVal(s[Len(s)])

\* the keys of downloads and the entries of overrides that are all digits, as integers
valid_keys(history) ==
    LET all_keys == (DOMAIN history.D) \cup {history.O[i] : i \in 1..Len(history.O)}
    IN  {IntOfStr(k) : k \in {a \in all_keys : IsDigitStr(a)}}

\* a library section searches items of its own type
LibType(lib) == IF lib = LibMovies THEN "movie" ELSE "show"

\* lib.search(maxresults=..., container_start=...): the page of the library
page_items(lib) == {k \in ItemKeys : Item(k).section = lib /\ Item(k).type = LibType(lib)}

\* the keys of done_ids_map: lib.search(id=valid_keys) when there is a valid
\* key; a failed search leaves the map empty
done_ids(lib, history, ok) ==
    IF valid_keys(history) # {} /\ ok THEN page_items(lib) \cap valid_keys(history) ELSE {}

\* self-healing that evicts every id it looked up
keys_rm_all(lib, done) == done

\* self-healing that goes by the poster file alone
keys_rm_by_file(lib, done) == {k \in done : ~check_file_exists(Item(k), lib, "poster")}

\* self-healing: the looked-up ids that do not classify as complete
keys_rm(lib, done) == {k \in done : get_item_status(Item(k), lib) # "complete"}

RECURSIVE RemoveAll(_, _)
RemoveAll(history, ks) ==
    IF ks = {} THEN history
    ELSE LET k == CHOOSE x \in ks : TRUE
             sk == StrOfInt(k)
             D2 == [a \in (DOMAIN history.D) \ {sk} |-> history.D[a]]
             O2 == IF InSeq(sk, history.O) THEN RemoveFirst(history.O, sk) ELSE history.O
         IN  RemoveAll([history EXCEPT !.D = D2, !.O = O2], ks \ {k})

\* the page's complete items, in the map or not
new_found_all(lib, done) ==
    {k \in page_items(lib) : get_item_status(Item(k), lib) = "complete"}

\* the page's complete items that the map does not hold
new_found(lib, done) ==
    {k \in page_items(lib) : get_item_status(Item(k), lib) = "complete" /\ k \notin done}

s_restored == "restored"

RECURSIVE Restore(_, _)
Restore(history, ks) ==
    IF ks = {} THEN history
    ELSE LET k == CHOOSE x \in ks : TRUE
         IN  Restore([history EXCEPT !.D = MapPut(@, StrOfInt(k), s_restored)], ks \ {k})

-----------------------------------------------------------------------------
(* The migration engine.  perform_migration(target_style) works on the     *)
(* files below the asset root and never asks the catalog.  A directory     *)
(* exists as long as a file lies below it; a directory without files is    *)
(* not part of the state.                                                  *)

s_season_lower == <<"s", "e", "a", "s", "o", "n">>
s_specials_lower == <<"s", "p", "e", "c", "i", "a", "l", "s">>
s_Specials == <<"S", "p", "e", "c", "i", "a", "l", "s">>
UpperChars == <<"A", "B", "C", "D", "E", "F", "G", "H", "I", "J", "K", "L", "M",
                "N", "O", "P", "Q", "R", "S", "T", "U", "V", "W", "X", "Y", "Z">>
LowerChars == <<"a", "b", "c", "d", "e", "f", "g", "h", "i", "j", "k", "l", "m",
                "n", "o", "p", "q", "r", "s", "t", "u", "v", "w", "x", "y", "z">>

LowerChar(c) ==
    IF \E i \in 1..Len(UpperChars) : UpperChars[i] = c
    THEN LowerChars[CHOOSE i \in 1..Len(UpperChars) : UpperChars[i] = c]
    ELSE c

Lower(s) == [i \in 1..Len(s) |-> LowerChar(s[i])]

\* the path split at the separators
RECURSIVE SplitPath(_)
SplitPath(p) ==
    LET hits == {i \in 1..Len(p) : p[i] = sep}
    IN  IF hits = {} THEN <<p>>
        ELSE LET i == CHOOSE h \in hits : \A j \in hits : h <= j
             IN  <<SubSeq(p, 1, i - 1)>> \o SplitPath(SubSeq(p, i + 1, Len(p)))

\* p lies below directory d
Under(d, p) == Len(p) > Len(d) + 1 /\ SubSeq(p, 1, Len(d) + 1) = d \o <<sep>>

\* the names from the asset root down to the file; <<>> for a path outside the root
Rel(p) ==
    LET root == base_dir_of(cfgBaseDir)
    IN  IF Under(root, p) THEN SplitPath(SubSeq(p, Len(root) + 2, Len(p))) ELSE <<>>

\* the library sub-directories found under the root
lib_dirs(files) == {Rel(f)[1] : f \in {g \in files : Len(Rel(g)) >= 2}}

HasSuffix(s, suf) == Len(s) >= Len(suf) /\ SubSeq(s, Len(s) - Len(suf) + 1, Len(s)) = suf

Stem(name) == SubSeq(name, 1, Len(name) - Len(s_jpg))

\* "Season<digits>" read without regard to case; the digits, or <<>>
SeasonDigits(tok) ==
    LET n == Len(s_season_lower)
    IN  IF Len(tok) > n /\ Lower(SubSeq(tok, 1, n)) = s_season_lower
           /\ IsDigitStr(SubSeq(tok, n + 1, Len(tok)))
        THEN SubSeq(tok, n + 1, Len(tok))
        ELSE <<>>

IsSpecials(tok) == Lower(tok) = s_specials_lower

IsSeasonToken(tok) == SeasonDigits(tok) # <<>> \/ IsSpecials(tok)

\* Season<NN>, the index zero-padded to two digits; Specials is Season00
SeasonNN(tok) ==
    IF IsSpecials(tok) THEN s_Season \o <<"0", "0">>
    ELSE s_Season \o Format02d(IntOfStr(SeasonDigits(tok)))

\* the position of the last underscore of a stem whose tail is a season
\* marker and whose head is not empty; 0 when the stem has no such marker
MarkerAt(stem) ==
    LET hits == {i \in 2..Len(stem) : stem[i] = "_"}
    IN  IF hits = {} THEN 0
        ELSE LET i == CHOOSE h \in hits : \A j \in hits : j <= h
             IN  IF IsSeasonToken(SubSeq(stem, i + 1, Len(stem))) THEN i ELSE 0

\* a legacy per-season sub-directory: "Season <N>" or "Specials"
LegacyDigits(name) ==
    IF Len(name) > Len(s_SeasonSpace) /\ SubSeq(name, 1, Len(s_SeasonSpace)) = s_SeasonSpace
       /\ IsDigitStr(SubSeq(name, Len(s_SeasonSpace) + 1, Len(name)))
    THEN SubSeq(name, Len(s_SeasonSpace) + 1, Len(name))
    ELSE <<>>

IsLegacyDir(name) == LegacyDigits(name) # <<>> \/ name = s_Specials

LegacyNN(name) ==
    IF name = s_Specials THEN s_Season \o <<"0", "0">>
    ELSE s_Season \o Format02d(IntOfStr(LegacyDigits(name)))

\* rule 1: a *.jpg directly under the library folder, when the target is AssetFolders
IsFlatSource(c, target) ==
    /\ Len(c) = 2 /\ target = "ASSET_FOLDERS"
    /\ HasSuffix(c[2], s_jpg) /\ Len(c[2]) > Len(s_jpg)

\* rule 2 applied whatever the target is
IsFolderSource_any_target(c, target) ==
    /\ Len(c) = 3
    /\ \/ c[3] = s_poster_jpg
       \/ HasSuffix(c[3], s_jpg) /\ IsSeasonToken(Stem(c[3]))

\* rule 2: poster.jpg, Season<digits>.jpg or Specials.jpg directly in an item
\* directory, when the target is Flat
IsFolderSource(c, target) ==
    /\ Len(c) = 3 /\ target = "NO_ASSET_FOLDERS"
    /\ \/ c[3] = s_poster_jpg
       \/ HasSuffix(c[3], s_jpg) /\ IsSeasonToken(Stem(c[3]))

\* rule 3: poster.jpg in a legacy per-season sub-directory, whatever the target
IsLegacySource(c) == Len(c) = 4 /\ IsLegacyDir(c[3]) /\ c[4] = s_poster_jpg

\* the files of a library that a run to target has to look at
sources(files, lib, target) ==
    {f \in files :
        LET c == Rel(f)
        IN  /\ Len(c) >= 2 /\ c[1] = lib
            /\ IsFlatSource(c, target) \/ IsFolderSource(c, target) \/ IsLegacySource(c)}

\* where a source goes
dest(f, target) ==
    LET c == Rel(f)
        libdir == join(<<base_dir_of(cfgBaseDir), c[1]>>)
    IN  IF IsLegacySource(c) THEN
            IF target = "ASSET_FOLDERS"
            THEN join(<<libdir, c[2], LegacyNN(c[3]) \o s_jpg>>)
            ELSE join(<<libdir, c[2] \o <<"_">> \o LegacyNN(c[3]) \o s_jpg>>)
        ELSE IF IsFolderSource(c, target) THEN
            IF c[3] = s_poster_jpg
            THEN join(<<libdir, c[2] \o s_jpg>>)
            ELSE join(<<libdir, c[2] \o <<"_">> \o SeasonNN(Stem(c[3])) \o s_jpg>>)
        ELSE
            LET stem == Stem(c[2])
                i == MarkerAt(stem)
                tok == SubSeq(stem, i + 1, Len(stem))
            IN  IF i > 0
                THEN join(<<libdir, SubSeq(stem, 1, i - 1),
                            (IF IsSpecials(tok) THEN s_Specials ELSE SeasonNN(tok)) \o s_jpg>>)
                ELSE join(<<libdir, stem, s_poster_jpg>>)

\* a destination that is never found taken
dest_taken_never(files, d) == FALSE

\* the destination already exists: the source is skipped
dest_taken(files, d) == d \in files

\* the move of one file
move_file(files, f, d) == (files \ {f}) \cup {d}

\* best-effort removal of a directory: it goes when nothing lies below it
remove_dir(files, d) ==
    IF \E f \in files : Under(d, f) THEN files ELSE {f \in files : ~Under(d, f)}

-----------------------------------------------------------------------------
(* The bulk-download sweep.  run_cron_job goes through the sections, their *)
(* items and the artifact kinds in the order the catalog returns them; a   *)
(* candidate image is a record of its provider and its key.                *)

Sections == <<LibMovies, LibTV>>

\* item.posters() and item.arts(): the candidates the catalog offers
Images(k, img_type) ==
    IF img_type = "poster"
    THEN CASE k = 1 -> << [provider |-> <<>>, key |-> "/k0"],
                          [provider |-> <<"T", "m">>, key |-> "http1"],
                          [provider |-> <<"l">>, key |-> "/k2"] >>
           [] k = 3 -> << [provider |-> <<"l">>, key |-> "/k2"] >>
           [] k = 5 -> << [provider |-> <<"T", "m">>, key |-> "http1"] >>
           [] k = 7 -> << [provider |-> <<>>, key |-> "/k0"] >>
           [] OTHER -> <<>>
    ELSE CASE k = 1 -> << [provider |-> <<"T", "m">>, key |-> "http1"] >>
           [] OTHER -> <<>>

\* the items whose posters() and arts() raise
ImagesRaise(k) == Item(k).broken

\* key if key.startswith('http') else plex.url(key)
image_url(key) ==
    CASE key = "http1" -> "http1"
      [] key = "/k0" -> "http://plex/k0"
      [] key = "/k2" -> "http://plex/k2"

\* the tasks of one item
cron_tasks(dl_bgs) == IF dl_bgs THEN <<"poster", "background">> ELSE <<"poster">>

\* the sections the sweep enters: named in CRON_LIBRARIES when that list is
\* not empty, not named in IGNORED_LIBRARIES, of type movie or show
cron_sections(cron_libs, ignored) ==
    SelectSeq(Sections, LAMBDA lib : /\ (cron_libs = {} \/ lib \in cron_libs)
                                     /\ lib \notin ignored
                                     /\ LibType(lib) \in {"movie", "show"})

\* a set of rating keys in the order of the keys
RECURSIVE Ascending(_)
Ascending(S) ==
    IF S = {} THEN <<>>
    ELSE LET m == CHOOSE x \in S : \A y \in S : x <= y
         IN  <<m>> \o Ascending(S \ {m})

RECURSIVE Flatten(_)
Flatten(ss) == IF ss = <<>> THEN <<>> ELSE Head(ss) \o Flatten(Tail(ss))

\* the (item, kind) pairs of a sweep, in the order of the three loops
cron_todo(cron_libs, ignored, dl_bgs) ==
    LET libs == cron_sections(cron_libs, ignored)
        of_item(k) == [i \in 1..Len(cron_tasks(dl_bgs)) |-> <<k, cron_tasks(dl_bgs)[i]>>]
        of_lib(lib) == LET ks == Ascending(page_items(lib))
                       IN  Flatten([i \in 1..Len(ks) |-> of_item(ks[i])])
    IN  Flatten([i \in 1..Len(libs) |-> of_lib(libs[i])])

\* the fetch that records the entry whatever the status code is
fetched_recording_first(files, ledger, save_path, rating_key, url, img_type, http) ==
    [disk |-> IF http = 200 THEN files \cup {save_path} ELSE files,
     hist |-> save_history_data(save_download_history(load_history_data(ledger),
                                                      rating_key, url, img_type))]

\* r = requests.get(url); on status 200 the body is written to save_path and
\* save_download_history is called; otherwise, and when the request raises
\* (status 0), nothing is written
fetched(files, ledger, save_path, rating_key, url, img_type, http) ==
    IF http = 200
    THEN [disk |-> files \cup {save_path},
          hist |-> save_history_data(save_download_history(load_history_data(ledger),
                                                           rating_key, url, img_type))]
    ELSE [disk |-> files, hist |-> ledger]

\* the images the selection may return; the empty set when it returns none
select_image(candidates, mode, target_provider) ==
    LET valid == SelectSeq(candidates, LAMBDA p : p.provider # <<>>)
        matching == SelectSeq(valid, LAMBDA p : IsSubstring(target_provider, Lower(p.provider)))
    IN  IF valid = <<>> THEN {}
        ELSE IF mode = "RANDOM" THEN {valid[i] : i \in 1..Len(valid)}
        ELSE IF mode \in {"SPECIFIC_PROVIDER", "RANDOM_PROVIDER"} THEN
            IF matching = <<>> THEN {}
            ELSE IF mode = "SPECIFIC_PROVIDER" THEN {matching[1]}
            ELSE {matching[i] : i \in 1..Len(matching)}
        ELSE {}

-----------------------------------------------------------------------------
(* The scheduler.  The clock is a date and an instant of that date; the    *)
(* instants are half a minute apart and lie around three in the morning.   *)

MaxDays == MaxRuns
TicksPerDay == 6
FirstMinute == (3 * 60) - 1

Weekdays == <<"MONDAY", "TUESDAY", "WEDNESDAY", "THURSDAY", "FRIDAY", "SATURDAY", "SUNDAY">>

\* now.strftime("%H:%M"), now.strftime("%A").upper() and the instants since
\* the first one
minute_of(tick) == FirstMinute + ((tick + 1) \div 2)
current_time_of(tick) ==
    Format02d(minute_of(tick) \div 60) \o <<":">> \o Format02d(minute_of(tick) % 60)
current_day_name_of(date) == Weekdays[((date - 1) % 7) + 1]
instant(date, tick) == (date - 1) * TicksPerDay + tick

\* the test of the loop without the date of the last run
should_run_undated(enabled, target_time, target_day, current_time, current_day_name, current_date, last_run_date) ==
    /\ enabled
    /\ (target_day = "DAILY") \/ (target_day = current_day_name)
    /\ current_time = target_time

\* the test of the loop, lines 458-470
should_run(enabled, target_time, target_day, current_time, current_day_name, current_date, last_run_date) ==
    /\ enabled
    /\ (target_day = "DAILY") \/ (target_day = current_day_name)
    /\ current_time = target_time
    /\ last_run_date # current_date

-----------------------------------------------------------------------------
(* Accounts and the request guard *)

\* generate_password_hash and check_password_hash: a stored hash matches the
\* password it was made from and no other
generate_password_hash(password) == <<"h", "(">> \o password \o <<")">>
check_password_hash(stored_hash, password) == stored_hash = generate_password_hash(password)

\* the endpoints the before_request hook lets through unasked
ExemptEndpoints == {"static", "login", "setup", "logout", "settings"}

\* require_auth: "pass" when the handler runs, else where it redirects to
require_auth(endpoint, has_session) ==
    IF endpoint \in ExemptEndpoints THEN "pass"
    ELSE IF web.disabled THEN "pass"
    ELSE IF web.user = <<>> THEN "to_settings"
    ELSE IF ~has_session THEN "to_login"
    ELSE "pass"

\* the 12-hour form fields as CRON_TIME
cron_time(h_12, m, ampm) ==
    LET h_24 == IF ampm = "PM" /\ h_12 # 12 THEN h_12 + 12
                ELSE IF ampm = "AM" /\ h_12 = 12 THEN 0
                ELSE h_12
    IN  Format02d(h_24) \o <<":">> \o Format02d(m)

\* what config.json holds of the server URL, the root, the style, the
\* schedule and the account
Persisted ==
    [url |-> web.url, dir |-> cfgBaseDir, style |-> cfgStyle, enabled |-> sched.enabled,
     time |-> sched.time, day |-> sched.day, user |-> web.user, hash |-> web.hash,
     disabled |-> web.disabled]

\* the record of a request to an exempt endpoint
Request(endpoint, action, has_session) ==
    [endpoint |-> endpoint, action |-> action, session |-> has_session,
     guarded |-> ~web.disabled /\ web.user # <<>>, before |-> Persisted, migrated |-> FALSE]

-----------------------------------------------------------------------------
(* Inputs of the operations *)

LibTitles == {<<>>, LibTV, LibMovies}
StyleArgs == {"NONE", "ASSET_FOLDERS", "NO_ASSET_FOLDERS"}
Styles == {"ASSET_FOLDERS", "NO_ASSET_FOLDERS"}
ImgTypes == {"poster", "background"}
BaseDirs == {DefaultBaseDir, <<"q">>}

\* the items the resolver is called with
PathItems == {1, 2, 4, 5, 6, 71, 72} \cup SeasonKeys
ResolveArgs == [item : PathItems, lib : LibTitles, style : StyleArgs, kind : ImgTypes]
DefaultArgs == [item |-> 1, lib |-> <<>>, style |-> "NONE", kind |-> "poster"]

NoCall == [called |-> FALSE, path |-> <<>>, root |-> <<>>, style |-> "NONE",
           onDisk |-> FALSE, flagged |-> FALSE]
NoStatus == [item |-> 0, val |-> "none"]
NoOp == [op |-> "none", key |-> <<>>, url |-> "none", kind |-> "none",
         before |-> JNone, ret |-> FALSE]

\* the request threads that may be inside a ledger writer at the same time
Procs == {1, 2}

\* a thread that has served no request yet; after a request the thread keeps
\* the record of it (pc "done") until it takes the next one
Idle == [pc |-> "idle", op |-> "none", key |-> <<>>, url |-> "none", kind |-> "none",
         lib |-> <<>>, ok |-> TRUE, snap |-> JNone, data |-> JNone, done |-> {},
         evicted |-> {}, restored |-> {}, stale |-> FALSE, held |-> {}, wrote |-> FALSE,
         latest |-> FALSE, again |-> FALSE, priorWrote |-> FALSE]
NoProcs == [p \in Procs |-> Idle]

\* rating keys posted to /toggle_complete, and rating keys, URLs and artifact
\* kinds handed to save_download_history
ToggleKeys == {StrOfInt(k) : k \in {1, 2, 4, 21}}
SaveKeys == {StrOfInt(k) : k \in {1, 2}}
Urls == {"u1", "u2"}
SaveTypes == {"poster", "background", "banner"}

\* the files the model lets appear on disk: the posters of the movie, of the
\* show with seasons and of its seasons under either style, the poster of the
\* show without seasons and one background
DiskPaths ==
    {item_path(DefaultBaseDir, sanitize_filename(Item(k).section),
               get_physical_folder_name(Item(k)), st, "poster") :
        k \in {1, 2}, st \in Styles}
    \cup {item_path(DefaultBaseDir, sanitize_filename(LibTV),
                    get_physical_folder_name(Item(3)), DefaultStyle, "poster")}
    \cup {season_path(DefaultBaseDir, sanitize_filename(LibTV), Item(k), st, "poster") :
             k \in SeasonKeys, st \in Styles}
    \cup {item_path(DefaultBaseDir, sanitize_filename(LibMovies),
                    get_physical_folder_name(Item(1)), DefaultStyle, "background")}

\* the background files the model lets appear on disk: those of the movie,
\* of the show with seasons and of its first season under either style
BackgroundPaths ==
    {item_path(DefaultBaseDir, sanitize_filename(Item(k).section),
               get_physical_folder_name(Item(k)), st, "background") :
        k \in {1, 2}, st \in Styles}
    \cup {season_path(DefaultBaseDir, sanitize_filename(LibTV), Item(21), st, "background") :
             st \in Styles}

\* no earlier run, and a settings page that has not been asked to migrate;
\* locked: files that cannot be moved; unreadable: library directories whose
\* listing fails
NoPrior == [target |-> "NONE", clean |-> FALSE, before |-> {}, count |-> 0]
NoMig == [phase |-> "idle", target |-> "NONE", libs |-> {}, lib |-> <<>>, todo |-> {},
          moved |-> {}, skipped |-> {}, failed |-> {}, count |-> 0, aborted |-> FALSE,
          before |-> {}, style0 |-> "NONE", locked |-> {}, unreadable |-> {},
          prior |-> NoPrior]

\* the files a tree may hold when a migration starts: posters and
\* backgrounds at their canonical places under either style, and a poster
\* in a legacy season sub-directory
MigItems == {1, 2, 8, 21}
MigPaths ==
    {get_target_file_path(Item(k), Item(k).section, st, "poster") :
        k \in MigItems, st \in Styles}
    \cup {get_target_file_path(Item(k), Item(k).section, st, "background") :
             k \in {1, 21}, st \in Styles}
    \cup {join(<<DefaultBaseDir, LibTV, get_physical_folder_name(Item(2)),
                 s_SeasonSpace \o StrOfInt(Item(21).index), s_poster_jpg>>)}

\* the latest fetch of run_cron_job or of the download route: the artifact,
\* the status code, whether the item resolved to a path, whether the path
\* existed before and exists after, and the ledger file before and after
NoFetch == [by |-> "none", key |-> <<>>, kind |-> "none", path |-> <<>>, url |-> "none",
            http |-> 0, resolved |-> FALSE, existed |-> FALSE, onDisk |-> FALSE,
            before |-> JNone, after |-> JNone]

\* no sweep yet; wrote and skipped are the pairs the sweep in progress (or
\* the latest one) downloaded and passed over, prior the pairs the sweep
\* before it downloaded
NoCron == [phase |-> "idle", runs |-> 0, todo |-> <<>>, mode |-> "RANDOM",
           target |-> <<>>, wrote |-> {}, skipped |-> {}, prior |-> {},
           style0 |-> "NONE", last |-> NoFetch]

\* CRON_MODE, CRON_PROVIDER, CRON_LIBRARIES and IGNORED_LIBRARIES as the
\* settings form may leave them, and the status codes of a fetch (0: the
\* request raised)
CronModes == {"RANDOM", "SPECIFIC_PROVIDER", "RANDOM_PROVIDER"}
CronProviders == {<<>>, <<"T">>}
CronLibraries == {{}, {LibMovies}, {LibTV}}
IgnoredLibraries == {{LibTV}}
HttpCodes == {0, 200, 404}

\* the scheduler before its first turn: the schedule as DEFAULT_CONFIG has
\* it, the clock at the first instant of the first date, the loop about to
\* take a turn, last_run_date None (date 0) and no job started; current_date
\* is the local of the turn that started a job, starts the log of the starts
NoSched == [enabled |-> FALSE, time |-> <<"0", "3", ":", "0", "0">>, day |-> "DAILY",
            date |-> 1, tick |-> 0, pc |-> "sleeping", wake |-> 0, current_date |-> 0,
            last_run_date |-> 0, starts |-> <<>>]

\* no account and no request yet; url is PLEX_URL, user and hash are
\* AUTH_USER and AUTH_HASH (<<>>: not set), disabled is AUTH_DISABLED
NoRequest == [endpoint |-> "none", action |-> "none", session |-> FALSE,
              guarded |-> FALSE, before |-> <<>>, migrated |-> FALSE]
NoWeb == [url |-> <<>>, user |-> <<>>, hash |-> <<>>, disabled |-> FALSE, last |-> NoRequest]

\* what the forms of the account pages carry
Usernames == {<<"a">>, <<"x">>}
Passwords == {<<"p", "w", "1", "!">>, <<"a", "b", "c">>}

\* the settings form: server URL, root, style and schedule (hour on the
\* 12-hour clock, minute, AM or PM)
UpdateForms ==
    {[plex_url |-> <<" ", "u", "1">>, download_dir |-> <<"q">>, asset_style |-> "NO_ASSET_FOLDERS",
      cron_enabled |-> "on", cron_day |-> "MONDAY", cron_hour |-> 3, cron_minute |-> 0,
      cron_ampm |-> "AM"],
     [plex_url |-> <<"u", "2">>, download_dir |-> DefaultBaseDir, asset_style |-> "ASSET_FOLDERS",
      cron_enabled |-> "on", cron_day |-> "DAILY", cron_hour |-> 3, cron_minute |-> 2,
      cron_ampm |-> "AM"],
     [plex_url |-> <<"u", "2">>, download_dir |-> DefaultBaseDir, asset_style |-> "ASSET_FOLDERS",
      cron_enabled |-> "off", cron_day |-> "TUESDAY", cron_hour |-> 12, cron_minute |-> 0,
      cron_ampm |-> "AM"]}

\* no get_physical_folder_name call yet
NoFolder == [item |-> Item(1), called |-> FALSE, name |-> <<>>]

\* the items get_physical_folder_name may be handed: every type, with and
\* without locations, with no episode, with a first episode without a
\* location and with one that has a location, and items whose attributes
\* raise when read
FolderLocations == {<<>>, << <<"/", "m", "/", "A", "/", "f">> >>, << <<"/", "t", "/", "S", "1", "/">> >>}
FolderEpisodes == {<<>>, << <<>> >>, << << EpisodeLoc >> >>}
FolderItems ==
    {MkItem(1, t, LibTV, locs, idx, 0, <<>>, eps, brk) :
        t \in {"movie", "show", "season", "episode"}, locs \in FolderLocations,
        idx \in {0, 12}, eps \in FolderEpisodes, brk \in BOOLEAN}

\* no pair resolved yet
NoPair == [a |-> <<1, "poster">>, b |-> <<1, "poster">>, called |-> FALSE,
           pa |-> <<>>, pb |-> <<>>, style |-> "NONE"]

\* the artifacts that are resolved in pairs: the movies, among them one
\* whose folder is named after another's with _background appended, the
\* shows, among them one whose folder is named after another's with
\* _Season12 appended, and the seasons
PairItems == {1, 5, 6, 9, 2, 3, 7, 10, 71, 72} \cup SeasonKeys
PairArtifacts == PairItems \X ImgTypes

-----------------------------------------------------------------------------
(* Actions *)

\* one call get_target_file_path(item, lib_title, style, img_type); the record
\* keeps the result with the configured root and the layout style the call ran
\* under, and whether the disk held a file and the ledger an override then
ResolvePath ==
    /\ cur' = [called |-> TRUE,
               path |-> get_target_file_path(Item(args.item), args.lib, args.style, args.kind),
               root |-> cfgBaseDir,
               style |-> IF args.style # "NONE" THEN args.style ELSE cfgStyle,
               onDisk |-> disk # {},
               flagged |-> load_history_data(histFile).O # <<>>]
    /\ prev' = cur
    /\ UNCHANGED <<cfgStyle, cfgBaseDir, disk, histFile, args, loaded, status, last>>
    /\ UNCHANGED <<procs, mig, cron, sched, web, folder, pair>>

\* settings(): ASSET_STYLE is saved from the form
SetAssetStyle(s) ==
    /\ s # cfgStyle
    /\ cfgStyle' = s
    /\ status' = NoStatus
    /\ UNCHANGED <<cfgBaseDir, disk, histFile, args, cur, prev, loaded, last>>
    /\ UNCHANGED <<procs, mig, cron, sched, web, folder, pair>>

\* settings(): DOWNLOAD_BASE_DIR is saved from the form
SetBaseDir(b) ==
    /\ b # cfgBaseDir
    /\ cfgBaseDir' = b
    /\ status' = NoStatus
    /\ UNCHANGED <<cfgStyle, disk, histFile, args, cur, prev, loaded, last>>
    /\ UNCHANGED <<procs, mig, cron, sched, web, folder, pair>>

\* download(): the fetched image is written to save_path
CreateFile(p) ==
    /\ p \notin disk
    /\ Cardinality(disk) < MaxFiles
    /\ disk' = disk \cup {p}
    /\ status' = NoStatus
    /\ UNCHANGED <<cfgStyle, cfgBaseDir, histFile, args, cur, prev, loaded, last>>
    /\ UNCHANGED <<procs, mig, cron, sched, web, folder, pair>>

\* a file is removed from the asset tree outside the program
DeleteFile(p) ==
    /\ p \in disk
    /\ disk' = disk \ {p}
    /\ status' = NoStatus
    /\ UNCHANGED <<cfgStyle, cfgBaseDir, histFile, args, cur, prev, loaded, last>>
    /\ UNCHANGED <<procs, mig, cron, sched, web, folder, pair>>

\* toggle_complete() -> toggle_override_status(rating_key): load, flip, save;
\* cap bounds the length of the list
ToggleOverride(rk, cap) ==
    LET data == load_history_data(histFile)
        out == toggle_override_status(data, rk)
    IN  /\ InSeq(rk, data.O) \/ Len(data.O) < cap
        /\ histFile' = out.data
        /\ last' = [op |-> "toggle", key |-> rk, url |-> "none", kind |-> "none",
                    before |-> data, ret |-> out.status]
        /\ status' = NoStatus
        /\ UNCHANGED <<cfgStyle, cfgBaseDir, disk, args, cur, prev, loaded>>
        /\ UNCHANGED <<procs, mig, cron, sched, web, folder, pair>>

\* save_download_history(rating_key, img_url, img_type): load, set, save
SaveDownloadHistory(rk, url, ty) ==
    LET data == load_history_data(histFile)
    IN  /\ history_key(rk, ty) \in DOMAIN data.D \/ Cardinality(DOMAIN data.D) < MaxDownloads
        /\ histFile' = save_download_history(data, rk, url, ty)
        /\ last' = [op |-> "save", key |-> rk, url |-> url, kind |-> ty,
                    before |-> data, ret |-> FALSE]
        /\ status' = NoStatus
        /\ UNCHANGED <<cfgStyle, cfgBaseDir, disk, args, cur, prev, loaded>>
        /\ UNCHANGED <<procs, mig, cron, sched, web, folder, pair>>

\* one call get_item_status(item, lib.title)
GetItemStatus(k) ==
    /\ status' = [item |-> k, val |-> get_item_status(Item(k), Item(k).section)]
    /\ UNCHANGED <<cfgStyle, cfgBaseDir, disk, histFile, args, cur, prev, loaded, last>>
    /\ UNCHANGED <<procs, mig, cron, sched, web, folder, pair>>

\* one call load_history_data()
LoadHistoryData ==
    /\ loaded' = load_history_data(histFile)
    /\ UNCHANGED <<cfgStyle, cfgBaseDir, disk, histFile, args, cur, prev, status, last>>
    /\ UNCHANGED <<procs, mig, cron, sched, web, folder, pair>>

\* the threads after thread p, now in record rec, has written file: p wrote
\* latest, and a thread that loaded and has not yet saved holds a stale
\* snapshot; held keeps the overrides no other thread has taken out
Written(p, rec, file) ==
    [q \in Procs |->
        IF q = p THEN [rec EXCEPT !.wrote = TRUE, !.latest = TRUE]
        ELSE [procs[q] EXCEPT !.latest = FALSE,
                              !.stale = @ \/ procs[q].pc \in {"loaded", "healed"},
                              !.held = {x \in @ : InSeq(x, file.O)}]]

\* toggle_override_status: data = load_history_data() and the flip in memory
ToggleLoad(p, rk, cap) ==
    LET data == load_history_data(histFile)
        out == toggle_override_status(data, rk)
    IN  /\ procs[p].pc \in {"idle", "done"}
        /\ InSeq(rk, data.O) \/ Len(data.O) < cap
        /\ procs' = [procs EXCEPT ![p] = [Idle EXCEPT !.pc = "loaded", !.op = "toggle",
                                                     !.key = rk, !.snap = data,
                                                     !.data = out.data]]
        /\ UNCHANGED <<cfgStyle, cfgBaseDir, disk, histFile, args, cur, prev, loaded,
                       status, last, mig,
                       cron, sched, web, folder, pair>>

\* save_download_history: data = load_history_data() and the entry set in memory
SaveLoad(p, rk, url, ty) ==
    LET data == load_history_data(histFile)
    IN  /\ procs[p].pc \in {"idle", "done"}
        /\ history_key(rk, ty) \in DOMAIN data.D \/ Cardinality(DOMAIN data.D) < MaxDownloads
        /\ procs' = [procs EXCEPT ![p] = [Idle EXCEPT !.pc = "loaded", !.op = "save",
                                                     !.key = rk, !.url = url, !.kind = ty,
                                                     !.snap = data,
                                                     !.data = save_download_history(data, rk, url, ty)]]
        /\ UNCHANGED <<cfgStyle, cfgBaseDir, disk, histFile, args, cur, prev, loaded,
                       status, last, mig,
                       cron, sched, web, folder, pair>>

\* the save_history_data(data) that ends toggle_override_status and save_download_history
WriterSave(p) ==
    LET file == save_history_data(procs[p].data)
    IN  /\ procs[p].pc = "loaded"
        /\ procs[p].op \in {"toggle", "save"}
        /\ histFile' = file
        /\ procs' = Written(p, [procs[p] EXCEPT !.pc = "done"], file)
        /\ UNCHANGED <<cfgStyle, cfgBaseDir, disk, args, cur, prev, loaded, status, last, mig,
                       cron, sched, web, folder, pair>>

\* view_library: history = load_history_data() and the lookup of its ids;
\* again: the thread's previous request was a pass over the same library with
\* the same lookup outcome, and the ledger is as that pass left it
PassLoad(p, lib, ok) ==
    LET history == load_history_data(histFile)
    IN  /\ procs[p].pc \in {"idle", "done"}
        /\ procs' = [procs EXCEPT ![p] =
              [Idle EXCEPT !.pc = "loaded", !.op = "pass", !.lib = lib, !.ok = ok,
                           !.snap = history, !.data = history,
                           !.done = done_ids(lib, history, ok),
                           !.held = {history.O[i] : i \in 1..Len(history.O)},
                           !.again = /\ procs[p].pc = "done" /\ procs[p].op = "pass"
                                     /\ procs[p].lib = lib /\ procs[p].ok = ok
                                     /\ ~procs[p].stale
                                     /\ load_history_data(save_history_data(procs[p].data)) = history,
                           !.priorWrote = procs[p].wrote]]
        /\ UNCHANGED <<cfgStyle, cfgBaseDir, disk, histFile, args, cur, prev, loaded,
                       status, last, mig,
                       cron, sched, web, folder, pair>>

\* view_library, self healing: the ids that no longer classify as complete
\* leave the map and the snapshot, which is saved when there was one
PassHeal(p) ==
    LET me == procs[p]
        rm == keys_rm(me.lib, me.done)
        rec == [me EXCEPT !.pc = "healed", !.data = RemoveAll(me.data, rm),
                          !.done = me.done \ rm, !.evicted = rm]
        file == save_history_data(rec.data)
    IN  /\ me.pc = "loaded"
        /\ me.op = "pass"
        /\ IF rm # {}
           THEN histFile' = file /\ procs' = Written(p, rec, file)
           ELSE UNCHANGED histFile /\ procs' = [procs EXCEPT ![p] = rec]
        /\ UNCHANGED <<cfgStyle, cfgBaseDir, disk, args, cur, prev, loaded, status, last, mig,
                       cron, sched, web, folder, pair>>

\* view_library, the page loop: the complete items the map does not hold are
\* entered as "restored" and the snapshot is saved when there was one
PassRestore(p) ==
    LET me == procs[p]
        nf == new_found(me.lib, me.done)
        rec == [me EXCEPT !.pc = "done", !.data = Restore(me.data, nf), !.restored = nf]
        file == IF nf # {} THEN save_history_data(rec.data) ELSE histFile
    IN  /\ me.pc = "healed"
        /\ histFile' = file
        /\ procs' = IF nf # {} THEN Written(p, rec, file) ELSE [procs EXCEPT ![p] = rec]
        /\ UNCHANGED <<cfgStyle, cfgBaseDir, disk, args, cur, prev, loaded, status, last, mig,
                       cron, sched, web, folder, pair>>

RECURSIVE RemoveDirs(_, _)
RemoveDirs(files, dirs) ==
    IF dirs = {} THEN files
    ELSE LET d == CHOOSE x \in dirs : TRUE
         IN  RemoveDirs(remove_dir(files, d), dirs \ {d})

\* the item directories of a library that a run has gone through
item_dirs(files, lib) ==
    {join(<<base_dir_of(cfgBaseDir), lib, Rel(f)[2]>>) :
        f \in {g \in files : Len(Rel(g)) >= 3 /\ Rel(g)[1] = lib}}

\* settings(), action migrate_assets: perform_migration(target_style) starts
\* and finds the library sub-directories under the root
mig_started(target) ==
    [mig EXCEPT !.phase = "listing", !.target = target,
                !.libs = lib_dirs(disk), !.lib = <<>>, !.todo = {},
                !.moved = {}, !.skipped = {}, !.failed = {}, !.count = 0,
                !.aborted = FALSE, !.before = disk, !.style0 = cfgStyle,
                !.prior = IF mig.phase = "done"
                          THEN [target |-> mig.target,
                                clean |-> ~mig.aborted /\ mig.failed = {},
                                before |-> mig.before, count |-> mig.count]
                          ELSE NoPrior]

MigBegin(target) ==
    /\ mig.phase \in {"idle", "done"}
    /\ mig' = mig_started(target)
    /\ UNCHANGED <<cfgStyle, cfgBaseDir, disk, histFile, args, cur, prev, loaded,
                   status, last, procs,
                   cron, sched, web, folder, pair>>

\* the next library directory is listed; a failed listing ends the run
MigList(lib) ==
    /\ mig.phase = "listing"
    /\ lib \in mig.libs
    /\ mig' = IF lib \in mig.unreadable
              THEN [mig EXCEPT !.phase = "returning", !.aborted = TRUE]
              ELSE [mig EXCEPT !.phase = "moving", !.lib = lib, !.libs = @ \ {lib},
                               !.todo = sources(disk, lib, mig.target)]
    /\ UNCHANGED <<cfgStyle, cfgBaseDir, disk, histFile, args, cur, prev, loaded,
                   status, last, procs,
                   cron, sched, web, folder, pair>>

\* one listed file: skipped when its destination exists, recorded as an
\* error when the move fails, moved otherwise; the legacy sub-directory it
\* leaves is removed when empty
MigMove(f) ==
    LET d == dest(f, mig.target)
        rest == [mig EXCEPT !.todo = @ \ {f}]
    IN  /\ mig.phase = "moving"
        /\ f \in mig.todo
        /\ IF dest_taken(disk, d)
           THEN /\ mig' = [rest EXCEPT !.skipped = @ \cup {f}]
                /\ UNCHANGED disk
           ELSE IF f \in mig.locked
           THEN /\ mig' = [rest EXCEPT !.failed = @ \cup {f}]
                /\ UNCHANGED disk
           ELSE /\ mig' = [rest EXCEPT !.moved = @ \cup {f}, !.count = @ + 1]
                /\ disk' = IF IsLegacySource(Rel(f))
                           THEN remove_dir(move_file(disk, f, d), dirname(f))
                           ELSE move_file(disk, f, d)
        /\ UNCHANGED <<cfgStyle, cfgBaseDir, histFile, args, cur, prev, loaded,
                       status, last, procs,
                   cron, sched, web, folder, pair>>

\* the library is done: on the way to Flat its item directories are removed
\* when empty
MigCleanup ==
    /\ mig.phase = "moving"
    /\ mig.todo = {}
    /\ disk' = IF mig.target = "NO_ASSET_FOLDERS"
               THEN RemoveDirs(disk, item_dirs(mig.before \cup disk, mig.lib))
               ELSE disk
    /\ mig' = [mig EXCEPT !.phase = "listing"]
    /\ UNCHANGED <<cfgStyle, cfgBaseDir, histFile, args, cur, prev, loaded,
                   status, last, procs,
                   cron, sched, web, folder, pair>>

\* settings(), after perform_migration has returned count and error:
\* cfg['ASSET_STYLE'] = target_style and save_config(cfg)
MigrateAssetsSave ==
    /\ \/ mig.phase = "returning"
       \/ mig.phase = "listing" /\ mig.libs = {}
    /\ cfgStyle' = mig.target
    /\ mig' = [mig EXCEPT !.phase = "done"]
    /\ UNCHANGED <<cfgBaseDir, disk, histFile, args, cur, prev, loaded, status, last, procs,
                   cron, sched, web, folder, pair>>

\* run_cron_job, lines 383-406: the configuration is read and the sections
\* are listed
cron_begun(dl_bgs, cron_libs, ignored, mode, provider) ==
    [cron EXCEPT !.phase = "running", !.runs = @ + 1,
                 !.todo = cron_todo(cron_libs, ignored, dl_bgs),
                 !.mode = mode, !.target = Lower(provider),
                 !.wrote = {}, !.skipped = {}, !.prior = cron.wrote,
                 !.style0 = current_style_of("NONE")]

CronBegin(dl_bgs, cron_libs, ignored, mode, provider) ==
    /\ cron.phase \in {"idle", "done"}
    /\ cron.runs < MaxRuns
    /\ cron' = cron_begun(dl_bgs, cron_libs, ignored, mode, provider)
    /\ UNCHANGED <<cfgStyle, cfgBaseDir, disk, histFile, args, cur, prev, loaded,
                   status, last, procs, mig, sched, web, folder, pair>>

\* one turn of the innermost loop, lines 407-449
CronTask(http) ==
    LET t == Head(cron.todo)
        item == Item(t[1])
        img_type == t[2]
        rest == [cron EXCEPT !.todo = Tail(@)]
        candidates == Images(t[1], img_type)
        save_path == get_target_file_path(item, item.section, "NONE", img_type)
    IN  /\ cron.phase = "running"
        /\ cron.todo # <<>>
        /\ IF check_file_exists(item, item.section, img_type)
           THEN /\ cron' = [rest EXCEPT !.skipped = @ \cup {t}]
                /\ UNCHANGED <<disk, histFile>>
           ELSE IF ImagesRaise(t[1]) \/ select_image(candidates, cron.mode, cron.target) = {}
                   \/ save_path = <<>>
           THEN /\ cron' = rest
                /\ UNCHANGED <<disk, histFile>>
           ELSE \E selected_img \in select_image(candidates, cron.mode, cron.target) :
                LET url == image_url(selected_img.key)
                    out == fetched(disk, histFile, save_path, StrOfInt(t[1]), url, img_type, http)
                    fetch == [by |-> "cron", key |-> StrOfInt(t[1]), kind |-> img_type,
                              path |-> save_path, url |-> url, http |-> http,
                              resolved |-> TRUE, existed |-> save_path \in disk,
                              onDisk |-> save_path \in out.disk,
                              before |-> histFile, after |-> out.hist]
                IN  /\ disk' = out.disk
                    /\ histFile' = out.hist
                    /\ cron' = IF http = 200
                               THEN [rest EXCEPT !.wrote = @ \cup {t}, !.last = fetch]
                               ELSE [rest EXCEPT !.last = fetch]
        /\ UNCHANGED <<cfgStyle, cfgBaseDir, args, cur, prev, loaded,
                       status, last, procs, mig, sched, web, folder, pair>>

\* the loops are through: the totals are logged and the job returns
CronEnd ==
    /\ cron.phase = "running"
    /\ cron.todo = <<>>
    /\ cron' = [cron EXCEPT !.phase = "done"]
    /\ UNCHANGED <<cfgStyle, cfgBaseDir, disk, histFile, args, cur, prev, loaded,
                   status, last, procs, mig, sched, web, folder, pair>>

\* POST /download: the item is fetched from the catalog by int(rating_key),
\* its path is resolved and the image is fetched; an id that is not a number
\* or not in the catalog raises and ends the request
Download(rating_key, img_url, img_type, http) ==
    LET found == IsDigitStr(rating_key) /\ IntOfStr(rating_key) \in ItemKeys
        item == Item(IntOfStr(rating_key))
        save_path == IF found
                     THEN get_target_file_path(item, item.section, "NONE", img_type)
                     ELSE <<>>
        out == IF save_path # <<>>
               THEN fetched(disk, histFile, save_path, rating_key, img_url, img_type, http)
               ELSE [disk |-> disk, hist |-> histFile]
    IN  /\ disk' = out.disk
        /\ histFile' = out.hist
        /\ cron' = [cron EXCEPT !.last =
                        [by |-> "download", key |-> rating_key, kind |-> img_type,
                         path |-> save_path, url |-> img_url, http |-> http,
                         resolved |-> save_path # <<>>, existed |-> save_path \in disk,
                         onDisk |-> save_path \in out.disk,
                         before |-> histFile, after |-> out.hist]]
        /\ UNCHANGED <<cfgStyle, cfgBaseDir, args, cur, prev, loaded,
                       status, last, procs, mig, sched, web, folder, pair>>

\* one call get_physical_folder_name(item)
PhysicalFolderName ==
    /\ folder' = [folder EXCEPT !.called = TRUE, !.name = get_physical_folder_name(folder.item)]
    /\ UNCHANGED <<cfgStyle, cfgBaseDir, disk, histFile, args, cur, prev, loaded,
                   status, last, procs, mig, cron, sched, web, pair>>

\* two calls get_target_file_path(item, lib_title, img_type=kind) under the
\* configured style
ResolvePair ==
    LET path(x) == get_target_file_path(Item(x[1]), Item(x[1]).section, "NONE", x[2])
    IN  /\ pair' = [pair EXCEPT !.called = TRUE, !.pa = path(pair.a), !.pb = path(pair.b),
                                !.style = current_style_of("NONE")]
        /\ UNCHANGED <<cfgStyle, cfgBaseDir, disk, histFile, args, cur, prev, loaded,
                       status, last, procs, mig, cron, sched, web, folder>>

\* where a poster of some item belongs under either style
AnyPosterPaths ==
    {get_target_file_path(Item(k), Item(k).section, st, "poster") : k \in ItemKeys, st \in Styles}

\* a background file appears under the asset root, or disappears from it;
\* the status taken before stays as it was taken
CreateBackground(p) ==
    /\ p \notin disk
    /\ p \notin AnyPosterPaths
    /\ Cardinality(disk) < MaxFiles
    /\ disk' = disk \cup {p}
    /\ UNCHANGED <<cfgStyle, cfgBaseDir, histFile, args, cur, prev, loaded, status, last>>
    /\ UNCHANGED <<procs, mig, cron, sched, web, folder, pair>>

DeleteBackground(p) ==
    /\ p \in disk
    /\ p \notin AnyPosterPaths
    /\ disk' = disk \ {p}
    /\ UNCHANGED <<cfgStyle, cfgBaseDir, histFile, args, cur, prev, loaded, status, last>>
    /\ UNCHANGED <<procs, mig, cron, sched, web, folder, pair>>

\* POST /settings, action update_config: the form is written to config.json
SettingsUpdate(has_session, form) ==
    /\ require_auth("settings", has_session) = "pass"
    /\ web' = [web EXCEPT !.url = Strip(form.plex_url),
                          !.last = Request("settings", "update_config", has_session)]
    /\ cfgBaseDir' = Strip(form.download_dir)
    /\ cfgStyle' = form.asset_style
    /\ sched' = [sched EXCEPT !.enabled = (form.cron_enabled = "on"), !.day = form.cron_day,
                              !.time = cron_time(form.cron_hour, form.cron_minute, form.cron_ampm)]
    /\ UNCHANGED <<disk, histFile, args, cur, prev, loaded, status, last, procs, mig,
                   cron, folder, pair>>

\* POST /settings, action migrate_assets: perform_migration(target_style) starts
SettingsMigrate(has_session, target) ==
    /\ require_auth("settings", has_session) = "pass"
    /\ mig.phase \in {"idle", "done"}
    /\ mig' = mig_started(target)
    /\ web' = [web EXCEPT !.last = [Request("settings", "migrate_assets", has_session)
                                       EXCEPT !.migrated = TRUE]]
    /\ UNCHANGED <<cfgStyle, cfgBaseDir, disk, histFile, args, cur, prev, loaded,
                   status, last, procs, cron, sched, folder, pair>>

\* POST /settings, action create_account
SettingsCreateAccount(has_session, new_username, new_password, confirm_password) ==
    /\ require_auth("settings", has_session) = "pass"
    /\ web' = IF new_password # confirm_password \/ Len(new_password) < 4
              THEN [web EXCEPT !.last = Request("settings", "create_account", has_session)]
              ELSE [web EXCEPT !.user = new_username,
                               !.hash = generate_password_hash(new_password),
                               !.disabled = FALSE,
                               !.last = Request("settings", "create_account", has_session)]
    /\ UNCHANGED <<cfgStyle, cfgBaseDir, disk, histFile, args, cur, prev, loaded,
                   status, last, procs, mig, cron, sched, folder, pair>>

\* POST /settings, action change_password
SettingsChangePassword(has_session, current_password, new_password, confirm_password) ==
    /\ require_auth("settings", has_session) = "pass"
    /\ web' = IF \/ web.hash = <<>> \/ ~check_password_hash(web.hash, current_password)
                 \/ new_password # confirm_password \/ Len(new_password) < 4
              THEN [web EXCEPT !.last = Request("settings", "change_password", has_session)]
              ELSE [web EXCEPT !.hash = generate_password_hash(new_password),
                               !.last = Request("settings", "change_password", has_session)]
    /\ UNCHANGED <<cfgStyle, cfgBaseDir, disk, histFile, args, cur, prev, loaded,
                   status, last, procs, mig, cron, sched, folder, pair>>

\* POST /settings, action disable_auth
SettingsDisableAuth(has_session, current_password) ==
    /\ require_auth("settings", has_session) = "pass"
    /\ web' = IF web.user = <<>>
              THEN [web EXCEPT !.disabled = TRUE,
                               !.last = Request("settings", "disable_auth", has_session)]
              ELSE IF web.hash = <<>> \/ ~check_password_hash(web.hash, current_password)
              THEN [web EXCEPT !.last = Request("settings", "disable_auth", has_session)]
              ELSE [web EXCEPT !.disabled = TRUE, !.user = <<>>, !.hash = <<>>,
                               !.last = Request("settings", "disable_auth", has_session)]
    /\ UNCHANGED <<cfgStyle, cfgBaseDir, disk, histFile, args, cur, prev, loaded,
                   status, last, procs, mig, cron, sched, folder, pair>>

\* POST /setup: the first account, refused once there is one
Setup(username, password, confirm) ==
    /\ require_auth("setup", FALSE) = "pass"
    /\ web' = IF web.user # <<>> \/ password # confirm \/ Len(password) < 4
              THEN [web EXCEPT !.last = Request("setup", "none", FALSE)]
              ELSE [web EXCEPT !.user = username, !.hash = generate_password_hash(password),
                               !.disabled = FALSE,
                               !.last = Request("setup", "none", FALSE)]
    /\ UNCHANGED <<cfgStyle, cfgBaseDir, disk, histFile, args, cur, prev, loaded,
                   status, last, procs, mig, cron, sched, folder, pair>>

\* POST /toggle_complete behind the before_request hook
GuardedToggle(has_session, rk) ==
    /\ require_auth("toggle_complete", has_session) = "pass"
    /\ ToggleOverride(rk, MaxFlagged)

\* time passes: the clock moves to the next instant
Tick ==
    /\ sched.date <= MaxDays
    /\ sched' = IF sched.tick + 1 < TicksPerDay
                THEN [sched EXCEPT !.tick = @ + 1]
                ELSE [sched EXCEPT !.tick = 0, !.date = @ + 1]
    /\ UNCHANGED <<cfgStyle, cfgBaseDir, disk, histFile, args, cur, prev, loaded,
                   status, last, procs, mig, cron, web, folder, pair>>

\* one turn of scheduler_loop up to the call of run_cron_job: the schedule
\* and the clock are read; the job starts when the test holds, otherwise
\* the loop sleeps 30 seconds
SchedTurn ==
    LET current_time == current_time_of(sched.tick)
        current_day_name == current_day_name_of(sched.date)
        current_date == sched.date
        now == instant(sched.date, sched.tick)
    IN  /\ sched.pc = "sleeping"
        /\ sched.date <= MaxDays
        /\ now >= sched.wake
        /\ IF should_run(sched.enabled, sched.time, sched.day, current_time,
                         current_day_name, current_date, sched.last_run_date)
           THEN /\ cron.phase \in {"idle", "done"}
                /\ sched' = [sched EXCEPT !.pc = "job", !.current_date = current_date,
                                          !.starts = Append(@,
                                              [date |-> current_date, at |-> current_time,
                                               on |-> current_day_name, enabled |-> sched.enabled,
                                               time |-> sched.time, day |-> sched.day])]
                /\ cron' = cron_begun(FALSE, {}, {LibTV}, "SPECIFIC_PROVIDER", <<>>)
           ELSE /\ sched' = [sched EXCEPT !.wake = now + 1]
                /\ UNCHANGED cron
        /\ UNCHANGED <<cfgStyle, cfgBaseDir, disk, histFile, args, cur, prev, loaded,
                       status, last, procs, mig, web, folder, pair>>

\* run_cron_job has returned: last_run_date = current_date, and the loop
\* sleeps 60 and 30 seconds
SchedJobDone ==
    /\ sched.pc = "job"
    /\ cron.phase = "done"
    /\ sched' = [sched EXCEPT !.pc = "sleeping", !.last_run_date = sched.current_date,
                              !.wake = instant(sched.date, sched.tick) + 3]
    /\ UNCHANGED <<cfgStyle, cfgBaseDir, disk, histFile, args, cur, prev, loaded,
                   status, last, procs, mig, cron, web, folder, pair>>

-----------------------------------------------------------------------------
(* Specifications *)

InitConfig ==
    /\ cfgStyle = DefaultStyle
    /\ cfgBaseDir = DefaultBaseDir

\* the classifier over the disk and the override set
Init ==
    /\ InitConfig
    /\ disk = {}
    /\ histFile = JAbsent
    /\ args = DefaultArgs
    /\ cur = NoCall /\ prev = NoCall
    /\ loaded = JNone
    /\ status = NoStatus
    /\ last = NoOp
    /\ procs = NoProcs /\ mig = NoMig
    /\ cron = NoCron /\ sched = NoSched /\ web = NoWeb /\ folder = NoFolder /\ pair = NoPair

Next ==
    \/ \E p \in DiskPaths : CreateFile(p)
    \/ \E p \in DiskPaths : DeleteFile(p)
    \/ \E s \in Styles : SetAssetStyle(s)
    \/ \E rk \in ToggleKeys : ToggleOverride(rk, MaxFlagged)
    \/ \E k \in StatusItems : GetItemStatus(k)

Spec == Init /\ [][Next]_vars

\* the path resolver: the inputs are drawn once, the configuration and the
\* rest of the state change between the calls
InitPath ==
    /\ InitConfig
    /\ disk = {}
    /\ histFile = JAbsent
    /\ args \in ResolveArgs
    /\ cur = NoCall /\ prev = NoCall
    /\ loaded = JNone
    /\ status = NoStatus
    /\ last = NoOp
    /\ procs = NoProcs /\ mig = NoMig
    /\ cron = NoCron /\ sched = NoSched /\ web = NoWeb /\ folder = NoFolder /\ pair = NoPair

NextPath ==
    \/ ResolvePath
    \/ \E s \in Styles : SetAssetStyle(s)
    \/ \E b \in BaseDirs : SetBaseDir(b)
    \/ (cur.path # <<>> /\ CreateFile(cur.path))
    \/ \E rk \in {StrOfInt(args.item)} : ToggleOverride(rk, MaxFlagged)

SpecPath == InitPath /\ [][NextPath]_vars

\* the ledger's writers
NextLedger ==
    \/ \E rk \in ToggleKeys : ToggleOverride(rk, MaxOverrides)
    \/ \E rk \in SaveKeys, url \in Urls, ty \in SaveTypes : SaveDownloadHistory(rk, url, ty)

SpecLedger == Init /\ [][NextLedger]_vars

\* load_history_data over what the ledger file may hold
RECURSIVE SeqsUpTo(_, _)
SeqsUpTo(S, n) ==
    IF n = 0 THEN {<<>>}
    ELSE LET shorter == SeqsUpTo(S, n - 1)
         IN  shorter \cup {Append(q, x) : q \in shorter, x \in S}

FileDownloads == {[k \in {<<"1">>} |-> "u1"], [k \in {<<"1">>, <<"1", "_", "b", "g">>} |-> "u2"], EmptyMap}
FileOverrides == {<<>>, << <<"1">> >>, << <<"2">>, <<"1">> >>}

LedgerFiles ==
    {JDoc(t, {}, EmptyMap, <<>>, <<>>) : t \in {"absent", "garbage", "null", "num", "bool"}}
    \cup {JDoc("list", {}, EmptyMap, <<>>, e) : e \in SeqsUpTo({"downloads", "overrides", "x"}, MaxElems)}
    \cup {JDoc("str", {}, EmptyMap, <<>>, e) :
             e \in {<<"x">>, s_downloads, s_downloads \o <<" ">> \o s_overrides}}
    \cup {JDoc("dict", ks \cup extra, IF "downloads" \in ks THEN D ELSE EmptyMap,
                IF "overrides" \in ks THEN O ELSE <<>>, <<>>) :
             ks \in SUBSET {"downloads", "overrides"}, extra \in {{}, {"other"}},
             D \in FileDownloads, O \in FileOverrides}

InitLoad ==
    /\ InitConfig
    /\ disk = {}
    /\ histFile \in LedgerFiles
    /\ args = DefaultArgs
    /\ cur = NoCall /\ prev = NoCall
    /\ loaded = JNone
    /\ status = NoStatus
    /\ last = NoOp
    /\ procs = NoProcs /\ mig = NoMig
    /\ cron = NoCron /\ sched = NoSched /\ web = NoWeb /\ folder = NoFolder /\ pair = NoPair

NextLoad == LoadHistoryData

SpecLoad == InitLoad /\ [][NextLoad]_vars

\* reconciliation passes, one request at a time, over the ledgers the
\* writers leave and the files that downloads and outside deletions leave
ReconKeys == {<<"1">>, <<"1">> \o s_bg, <<"2">>, <<"3">>}
ReconDownloads ==
    {[k \in ks |-> "u1"] : ks \in {s \in SUBSET ReconKeys : Cardinality(s) <= MaxDownloads}}
ReconOverrides == {<<>>} \cup {<<k>> : k \in {<<"1">>, <<"2">>}}
ReconLedgers ==
    {JAbsent} \cup {JDoc("dict", {"downloads", "overrides"}, D, O, <<>>) :
                       D \in ReconDownloads \ {EmptyMap}, O \in ReconOverrides}
                \cup {JDoc("dict", {"downloads", "overrides"}, EmptyMap, O, <<>>) :
                       O \in ReconOverrides \ {<<>>}}

InitRecon ==
    /\ cfgStyle \in Styles
    /\ cfgBaseDir = DefaultBaseDir
    /\ disk \in {d \in SUBSET DiskPaths : Cardinality(d) <= MaxFiles}
    /\ histFile \in ReconLedgers
    /\ args = DefaultArgs
    /\ cur = NoCall /\ prev = NoCall
    /\ loaded = JNone
    /\ status = NoStatus
    /\ last = NoOp
    /\ procs = NoProcs /\ mig = NoMig
    /\ cron = NoCron /\ sched = NoSched /\ web = NoWeb /\ folder = NoFolder /\ pair = NoPair

NextRecon ==
    \/ \E lib \in {LibTV, LibMovies} : PassLoad(1, lib, TRUE)
    \/ PassHeal(1)
    \/ PassRestore(1)

SpecRecon == InitRecon /\ [][NextRecon]_vars

\* reconciliation passes, one request at a time, whose lookup of the ledger's
\* ids fails (the exception is swallowed at line 1155)
NextLookup ==
    \/ \E lib \in {LibTV, LibMovies} : PassLoad(1, lib, FALSE)
    \/ PassHeal(1)
    \/ PassRestore(1)

SpecLookup == InitRecon /\ [][NextLookup]_vars

\* the ledger's writers and reconciliation passes from the empty ledger, one
\* operation at a time: a toggle or a save runs only between passes
SeqDisks ==
    SUBSET {get_target_file_path(Item(1), LibMovies, DefaultStyle, "poster"),
            get_target_file_path(Item(3), LibTV, DefaultStyle, "poster")}

InitSeq ==
    /\ InitConfig
    /\ disk \in SeqDisks
    /\ histFile = JAbsent
    /\ args = DefaultArgs
    /\ cur = NoCall /\ prev = NoCall
    /\ loaded = JNone
    /\ status = NoStatus
    /\ last = NoOp
    /\ procs = NoProcs /\ mig = NoMig
    /\ cron = NoCron /\ sched = NoSched /\ web = NoWeb /\ folder = NoFolder /\ pair = NoPair

BetweenPasses == procs[1].pc \in {"idle", "done"}

NextSeq ==
    \/ \E rk \in {<<"1">>, <<"2">>, <<"3">>} : BetweenPasses /\ ToggleOverride(rk, MaxOverrides)
    \/ \E rk \in {<<"1">>} : BetweenPasses /\ SaveDownloadHistory(rk, "u1", "poster")
    \/ \E lib \in {LibTV, LibMovies} : PassLoad(1, lib, TRUE)
    \/ PassHeal(1)
    \/ PassRestore(1)

SpecSeq == InitSeq /\ [][NextSeq]_vars

\* two request threads inside the ledger's writers
RaceDisks == SUBSET {item_path(DefaultBaseDir, sanitize_filename(LibTV),
                               get_physical_folder_name(Item(3)), DefaultStyle, "poster")}

InitRace ==
    /\ InitConfig
    /\ disk \in RaceDisks
    /\ histFile = JAbsent
    /\ args = DefaultArgs
    /\ cur = NoCall /\ prev = NoCall
    /\ loaded = JNone
    /\ status = NoStatus
    /\ last = NoOp
    /\ procs = NoProcs /\ mig = NoMig
    /\ cron = NoCron /\ sched = NoSched /\ web = NoWeb /\ folder = NoFolder /\ pair = NoPair

NextRace ==
    \/ \E p \in Procs : ToggleLoad(p, <<"3">>, MaxFlagged)
    \/ \E p \in Procs : SaveLoad(p, <<"2">>, "u1", "poster")
    \/ \E p \in Procs : WriterSave(p)
    \/ \E p \in Procs : PassLoad(p, LibTV, TRUE)
    \/ \E p \in Procs : PassHeal(p)
    \/ \E p \in Procs : PassRestore(p)

SpecRace == InitRace /\ [][NextRace]_vars

\* migrate_assets requests, one at a time, over the trees that either style,
\* a legacy layout, files that cannot be moved and directories that cannot
\* be listed make
InitMig ==
    /\ cfgStyle \in Styles
    /\ cfgBaseDir = DefaultBaseDir
    /\ disk \in {d \in SUBSET MigPaths : Cardinality(d) <= MaxFiles}
    /\ histFile = JAbsent
    /\ args = DefaultArgs
    /\ cur = NoCall /\ prev = NoCall
    /\ loaded = JNone
    /\ status = NoStatus
    /\ last = NoOp
    /\ procs = NoProcs
    /\ cron = NoCron /\ sched = NoSched /\ web = NoWeb /\ folder = NoFolder /\ pair = NoPair
    /\ \E L \in SUBSET disk, U \in SUBSET lib_dirs(disk) :
          /\ Cardinality(L) + Cardinality(U) <= MaxBlocked
          /\ mig = [NoMig EXCEPT !.locked = L, !.unreadable = U]

NextMig ==
    \/ \E t \in Styles : MigBegin(t)
    \/ \E lib \in lib_dirs(disk) : MigList(lib)
    \/ \E f \in disk : MigMove(f)
    \/ MigCleanup
    \/ MigrateAssetsSave

SpecMig == InitMig /\ [][NextMig]_vars

\* one migrate_assets request, one library page request and one sweep of the
\* scheduler, each in a thread of its own: the request threads of the server
\* and the daemon thread of line 477 take their steps in any order
OverlapLedger == JDoc("dict", {"downloads", "overrides"}, [k \in {<<"1">>} |-> "u1"], <<>>, <<>>)

InitOverlap ==
    /\ cfgStyle \in Styles
    /\ cfgBaseDir = DefaultBaseDir
    /\ disk = {get_target_file_path(Item(1), LibMovies, cfgStyle, "poster")}
    /\ histFile = OverlapLedger
    /\ args = DefaultArgs
    /\ cur = NoCall /\ prev = NoCall
    /\ loaded = JNone
    /\ status = NoStatus
    /\ last = NoOp
    /\ procs = NoProcs /\ mig = NoMig
    /\ cron = NoCron /\ sched = NoSched /\ web = NoWeb /\ folder = NoFolder /\ pair = NoPair

NextOverlap ==
    \/ \E t \in Styles : mig.phase = "idle" /\ MigBegin(t)
    \/ \E lib \in lib_dirs(disk) : MigList(lib)
    \/ \E f \in disk : MigMove(f)
    \/ MigCleanup
    \/ MigrateAssetsSave
    \/ (procs[1].pc = "idle" /\ PassLoad(1, LibMovies, TRUE))
    \/ PassHeal(1)
    \/ PassRestore(1)
    \/ \E mode \in {"RANDOM"} : cron.runs = 0 /\ CronBegin(FALSE, {LibMovies}, {}, mode, <<>>)
    \/ \E http \in {200} : CronTask(http)
    \/ CronEnd

SpecOverlap == InitOverlap /\ [][NextOverlap]_vars

\* get_physical_folder_name over the items it may be handed
InitFolder ==
    /\ InitConfig
    /\ disk = {}
    /\ histFile = JAbsent
    /\ args = DefaultArgs
    /\ cur = NoCall /\ prev = NoCall
    /\ loaded = JNone
    /\ status = NoStatus
    /\ last = NoOp
    /\ procs = NoProcs /\ mig = NoMig
    /\ cron = NoCron /\ sched = NoSched /\ web = NoWeb /\ pair = NoPair
    /\ \E it \in FolderItems : folder = [NoFolder EXCEPT !.item = it]

NextFolder == PhysicalFolderName

SpecFolder == InitFolder /\ [][NextFolder]_vars

\* the resolver over two distinct artifacts of one library
InitPairs ==
    /\ cfgStyle \in Styles
    /\ cfgBaseDir = DefaultBaseDir
    /\ disk = {}
    /\ histFile = JAbsent
    /\ args = DefaultArgs
    /\ cur = NoCall /\ prev = NoCall
    /\ loaded = JNone
    /\ status = NoStatus
    /\ last = NoOp
    /\ procs = NoProcs /\ mig = NoMig
    /\ cron = NoCron /\ sched = NoSched /\ web = NoWeb /\ folder = NoFolder
    /\ \E x \in PairArtifacts, y \in PairArtifacts :
          /\ x # y
          /\ Item(x[1]).section = Item(y[1]).section
          /\ pair = [NoPair EXCEPT !.a = x, !.b = y]

NextPairs == ResolvePair

SpecPairs == InitPairs /\ [][NextPairs]_vars

\* the classifier over disks that hold posters and backgrounds
NextArt ==
    \/ \E p \in DiskPaths : CreateFile(p)
    \/ \E p \in DiskPaths : DeleteFile(p)
    \/ \E p \in BackgroundPaths : CreateBackground(p)
    \/ \E p \in BackgroundPaths : DeleteBackground(p)
    \/ \E s \in Styles : SetAssetStyle(s)
    \/ \E rk \in ToggleKeys : ToggleOverride(rk, MaxFlagged)
    \/ \E k \in StatusItems : GetItemStatus(k)

SpecArt == Init /\ [][NextArt]_vars

\* sweeps of the bulk-download job, one after the other, with nothing else
\* touching the disk, the ledger or the configured style
CronDisks ==
    SUBSET {get_target_file_path(Item(1), LibMovies, st, "poster") : st \in Styles}

InitCron ==
    /\ cfgStyle \in Styles
    /\ cfgBaseDir = DefaultBaseDir
    /\ disk \in CronDisks
    /\ histFile = JAbsent
    /\ args = DefaultArgs
    /\ cur = NoCall /\ prev = NoCall
    /\ loaded = JNone
    /\ status = NoStatus
    /\ last = NoOp
    /\ procs = NoProcs /\ mig = NoMig
    /\ cron = NoCron /\ sched = NoSched /\ web = NoWeb /\ folder = NoFolder /\ pair = NoPair

NextCron ==
    \/ \E dl_bgs \in BOOLEAN, cron_libs \in CronLibraries, ignored \in IgnoredLibraries,
          mode \in CronModes, provider \in CronProviders :
          CronBegin(dl_bgs, cron_libs, ignored, mode, provider)
    \/ \E http \in HttpCodes : CronTask(http)
    \/ CronEnd

SpecCron == InitCron /\ [][NextCron]_vars

\* download requests and one sweep, one fetch at a time
DownloadKeys == {<<"1">>, <<"4">>, <<"1">> \o s_bg}

NextFetch ==
    \/ \E rk \in DownloadKeys, ty \in ImgTypes, http \in HttpCodes :
          Download(rk, "u1", ty, http)
    \/ (cron.runs = 0 /\ CronBegin(FALSE, {}, {LibTV}, "SPECIFIC_PROVIDER", <<"T">>))
    \/ \E http \in HttpCodes : CronTask(http)
    \/ CronEnd

SpecFetch == InitCron /\ [][NextFetch]_vars

\* requests with and without a logged-in session against the account pages,
\* the settings page and one endpoint behind the hook; a session can only be
\* carried once there is an account to log in to
InitAuth ==
    /\ InitConfig
    /\ disk = {}
    /\ histFile = JAbsent
    /\ args = DefaultArgs
    /\ cur = NoCall /\ prev = NoCall
    /\ loaded = JNone
    /\ status = NoStatus
    /\ last = NoOp
    /\ procs = NoProcs /\ mig = NoMig
    /\ cron = NoCron /\ sched = NoSched /\ web = NoWeb /\ folder = NoFolder /\ pair = NoPair

Sessions == IF web.user # <<>> THEN BOOLEAN ELSE {FALSE}

NextAuth ==
    \/ \E u \in Usernames, pw \in Passwords, c \in Passwords : Setup(u, pw, c)
    \/ \E hs \in Sessions, form \in UpdateForms : SettingsUpdate(hs, form)
    \/ \E hs \in Sessions, t \in Styles : SettingsMigrate(hs, t)
    \/ MigrateAssetsSave
    \/ \E hs \in Sessions, u \in Usernames, pw \in Passwords, c \in Passwords :
          SettingsCreateAccount(hs, u, pw, c)
    \/ \E hs \in Sessions, cp \in Passwords, pw \in Passwords, c \in Passwords :
          SettingsChangePassword(hs, cp, pw, c)
    \/ \E hs \in Sessions, cp \in Passwords : SettingsDisableAuth(hs, cp)
    \/ \E hs \in Sessions : GuardedToggle(hs, <<"1">>)

SpecAuth == InitAuth /\ [][NextAuth]_vars

\* the scheduler thread, the clock and settings requests that change the
\* schedule; the sweep the scheduler starts runs inside its turn
NextSched ==
    \/ Tick
    \/ SchedTurn
    \/ \E http \in {200} : sched.pc = "job" /\ CronTask(http)
    \/ (sched.pc = "job" /\ CronEnd)
    \/ SchedJobDone
    \/ \E form \in UpdateForms : sched.date <= MaxDays /\ SettingsUpdate(FALSE, form)

SpecSched == InitAuth /\ [][NextSched]_vars

-----------------------------------------------------------------------------
(* Claims about the path resolver, checked under SpecPath *)

Slash(a, b) == a \o <<"/">> \o b

\* the asset root of a call: the configured directory, below DATA_DIR when relative
ExpRoot(root) == IF root[1] = "/" THEN root ELSE Slash(DATA_DIR, root)

\* the library directory of the call: the title with the reserved characters
\* and the surrounding blanks removed
ExpLibDir ==
    LET title == IF args.lib = <<>> THEN Item(args.item).section ELSE args.lib
    IN  IF title = LibMovies THEN <<"M", "v">> ELSE title

\* i zero-padded to two digits
Pad2(i) ==
    IF i < 10 THEN <<"0", DigitChars[i + 1]>>
    ELSE IF i < 100 THEN <<DigitChars[(i \div 10) + 1], DigitChars[(i % 10) + 1]>>
    ELSE StrOfInt(i)

ArgItem == Item(args.item)

\* C4: a season resolves to root/L/S_SeasonNN[_background].jpg under Flat and to
\* root/L/S/SeasonNN[_background].jpg under AssetFolders, S being the physical
\* folder name of the parent show and NN the index padded to two digits.
C4_SeasonPath ==
    (cur.called /\ ArgItem.type = "season") =>
        LET S == get_physical_folder_name(Item(ArgItem.parentKey))
            NN == Pad2(ArgItem.index)
            lib == Slash(ExpRoot(cur.root), ExpLibDir)
            sfx == IF args.kind = "poster" THEN <<>> ELSE s_background_suffix
        IN  cur.path = IF cur.style = "NO_ASSET_FOLDERS"
                       THEN Slash(lib, S \o <<"_">> \o s_Season \o NN \o sfx \o s_jpg)
                       ELSE Slash(Slash(lib, S), s_Season \o NN \o sfx \o s_jpg)

\* a background of a three-digit season, whose own episode folder is not the
\* show's folder, was resolved under AssetFolders
C4_Witness ==
    /\ cur.called /\ args.item = 72 /\ args.kind = "background"
    /\ cur.style = "ASSET_FOLDERS"
    /\ get_physical_folder_name(ArgItem) # get_physical_folder_name(Item(ArgItem.parentKey))
    /\ cur.path = <<"/", "d", "/", "p", "/", "T", "V", "/", "W", "/">>
                  \o <<"S", "e", "a", "s", "o", "n", "1", "0", "4">> \o s_background_suffix \o s_jpg

\* C5: a movie or show resolves to root/L/P.jpg or root/L/P_background.jpg under
\* Flat and to root/L/P/poster.jpg or root/L/P/background.jpg under AssetFolders.
C5_ItemPath ==
    (cur.called /\ ArgItem.type \in {"movie", "show"}) =>
        LET P == get_physical_folder_name(ArgItem)
            lib == Slash(ExpRoot(cur.root), ExpLibDir)
        IN  cur.path =
                IF cur.style = "NO_ASSET_FOLDERS"
                THEN Slash(lib, P \o (IF args.kind = "poster" THEN <<>> ELSE s_background_suffix) \o s_jpg)
                ELSE Slash(Slash(lib, P), IF args.kind = "poster" THEN s_poster_jpg ELSE s_background_jpg)

\* the poster of the show was resolved under Flat below the relative root
C5_Witness ==
    /\ cur.called /\ args.item = 2 /\ args.kind = "poster" /\ args.lib = LibMovies
    /\ cur.style = "NO_ASSET_FOLDERS"
    /\ cur.path = <<"/", "d", "/", "q", "/", "M", "v", "/", "S", "1", ".", "j", "p", "g">>

\* the part of a resolved path below the asset root
BelowRoot(c) == SubSeq(c.path, Len(ExpRoot(c.root)) + 2, Len(c.path))

\* C6: no component of a resolved path below the root contains one of the
\* characters < > : " / \ | ? * (the separators between components aside).
C6_Sanitized ==
    (cur.called /\ cur.path # <<>>) =>
        \A i \in 1..Len(BelowRoot(cur)) :
            BelowRoot(cur)[i] \in ForbiddenChars => BelowRoot(cur)[i] = sep

\* C7: two calls with the same item, library name, layout style and artifact
\* kind under the same configured root return the same path.
C7_Deterministic ==
    (prev.called /\ cur.called /\ prev.root = cur.root /\ prev.style = cur.style) =>
        prev.path = cur.path

\* the same path was returned before and after a file appeared on disk and an
\* override entered the ledger
C7_Witness ==
    /\ prev.called /\ cur.called /\ cur.path # <<>>
    /\ prev.root = cur.root /\ prev.style = cur.style
    /\ ~prev.onDisk /\ cur.onDisk /\ ~prev.flagged /\ cur.flagged
    /\ prev.path = cur.path

-----------------------------------------------------------------------------
(* Claims about the classifier, checked under Spec *)

\* where the poster of item k belongs under the configured style
PosterPath(k) ==
    LET it == Item(k)
        lib == Slash(ExpRoot(cfgBaseDir), IF it.section = LibMovies THEN <<"M", "v">> ELSE it.section)
    IN  IF it.type = "season"
        THEN LET S == get_physical_folder_name(Item(it.parentKey))
                 name == s_Season \o Pad2(it.index) \o s_jpg
             IN  IF cfgStyle = "NO_ASSET_FOLDERS"
                 THEN Slash(lib, S \o <<"_">> \o name)
                 ELSE Slash(Slash(lib, S), name)
        ELSE LET P == get_physical_folder_name(it)
             IN  IF cfgStyle = "NO_ASSET_FOLDERS"
                 THEN Slash(lib, P \o s_jpg)
                 ELSE Slash(Slash(lib, P), s_poster_jpg)

HasPoster(k) == PosterPath(k) \in disk
Flagged(k) == InSeq(StrOfInt(k), histFile.O)
SeasonsWithPoster(k) == Cardinality({i \in 1..Len(Item(k).seasons) : HasPoster(Item(k).seasons[i])})

\* C1: an item of any kind whose ratingKey is in the overrides is classified
\* complete, whatever the disk holds.
C1_OverrideWins ==
    (status.item # 0 /\ Flagged(status.item)) => status.val = "complete"

\* an overridden season was classified complete with nothing on disk
C1_Witness ==
    /\ status.item = 21 /\ Flagged(21) /\ disk = {}
    /\ status.val = "complete"

C3_MovieStatus ==
    (status.item # 0 /\ Item(status.item).type = "movie" /\ ~Flagged(status.item)) =>
        /\ status.val = "complete" <=> HasPoster(status.item)
        /\ status.val = "missing" <=> ~HasPoster(status.item)
        /\ status.val # "partial"

\* a movie whose poster lies only where the other style puts it was classified missing
C3_Witness ==
    /\ status.item = 1 /\ ~Flagged(1)
    /\ cfgStyle = "NO_ASSET_FOLDERS"
    /\ <<"/", "d", "/", "p", "/", "M", "v", "/", "A", ":", "b", "/">> \o s_poster_jpg \in disk
    /\ status.val = "missing"

-----------------------------------------------------------------------------
(* Claims about the ledger *)

\* C8: load_history_data returns the empty ledger for a file that is missing,
\* not JSON or not a mapping, and a mapping with its missing keys backfilled.
C8_LoadTolerant ==
    loaded.t # "none" =>
        IF histFile.t # "dict" THEN loaded = EmptyLedger
        ELSE /\ loaded.t = "dict"
             /\ loaded.keys = histFile.keys \cup {"downloads", "overrides"}
             /\ loaded.D = (IF "downloads" \in histFile.keys THEN histFile.D ELSE EmptyMap)
             /\ loaded.O = (IF "overrides" \in histFile.keys THEN histFile.O ELSE <<>>)

\* C9: toggle_override_status flips the membership of the id, returns the new
\* membership and leaves the downloads and the other ids as they were.
C9_Toggle ==
    last.op = "toggle" =>
        /\ InSeq(last.key, histFile.O) <=> ~InSeq(last.key, last.before.O)
        /\ last.ret <=> InSeq(last.key, histFile.O)
        /\ histFile.D = last.before.D
        /\ \A k \in ToggleKeys \ {last.key} : InSeq(k, histFile.O) <=> InSeq(k, last.before.O)

\* an id was toggled off while another id and a download stayed in the ledger
C9_Witness ==
    /\ last.op = "toggle" /\ InSeq(last.key, last.before.O) /\ ~last.ret
    /\ ~InSeq(last.key, histFile.O)
    /\ histFile.O # <<>> /\ DOMAIN histFile.D # {}

\* C10: save_download_history sets the entry under the bare id (poster) or the
\* suffixed id (any other kind) to the URL and changes nothing else.
C10_Save ==
    last.op = "save" =>
        LET key == IF last.kind = "poster" THEN last.key ELSE last.key \o <<"_", "b", "g">>
            other == IF last.kind = "poster" THEN last.key \o <<"_", "b", "g">> ELSE last.key
        IN  /\ DOMAIN histFile.D = (DOMAIN last.before.D) \cup {key}
            /\ histFile.D[key] = last.url
            /\ \A k \in (DOMAIN last.before.D) \ {key} : histFile.D[k] = last.before.D[k]
            /\ other \in DOMAIN histFile.D <=> other \in DOMAIN last.before.D
            /\ histFile.O = last.before.O

\* a poster was recorded for an id whose background entry holds another URL,
\* with an override in the ledger
C10_Witness ==
    /\ last.op = "save" /\ last.kind = "poster" /\ last.key = <<"1">> /\ last.url = "u2"
    /\ <<"1", "_", "b", "g">> \in DOMAIN last.before.D
    /\ histFile.D[<<"1", "_", "b", "g">>] = "u1"
    /\ histFile.D[<<"1">>] = "u2"
    /\ histFile.O # <<>>

-----------------------------------------------------------------------------
(* Claims about concurrent writers of the ledger, checked under SpecRace *)

\* the entries of the ledger that a finished request changed on purpose
Targets(rec) ==
    CASE rec.op = "toggle" -> {<<"O", rec.key>>}
      [] rec.op = "save" -> {<<"D", history_key(rec.key, rec.kind)>>}
      [] rec.op = "pass" ->
            {<<"D", StrOfInt(k)>> : k \in rec.evicted \cup rec.restored}
            \cup {<<"O", StrOfInt(k)>> : k \in rec.evicted}
      [] OTHER -> {}

\* what a ledger holds for an entry
EntryVal(ledger, e) ==
    IF e[1] = "O" THEN (IF InSeq(e[2], ledger.O) THEN "flagged" ELSE "absent")
    ELSE IF e[2] \in DOMAIN ledger.D THEN ledger.D[e[2]] ELSE "absent"

\* p saved last, from a snapshot it loaded before q's save
Overwrote(p, q) ==
    /\ p # q
    /\ procs[p].pc = "done" /\ procs[q].pc = "done"
    /\ procs[p].latest /\ procs[p].stale
    /\ procs[q].wrote

\* C11: when two writers of the ledger have both finished and the one that
\* saved last had loaded its snapshot before the other saved, the persisted
\* ledger holds, for every entry that only the other writer changed, what the
\* last saver's snapshot held: the other writer's mutation is lost
C11_LostUpdate ==
    \A p \in Procs, q \in Procs :
        Overwrote(p, q) =>
            \A e \in Targets(procs[q]) \ Targets(procs[p]) :
                EntryVal(load_history_data(histFile), e) = EntryVal(procs[p].snap, e)

\* a reconciliation pass saved a stale snapshot over the finished mutation
\* of another writer, which is absent from the persisted ledger
C11_Witness ==
    \E p \in Procs, q \in Procs :
        /\ Overwrote(p, q)
        /\ procs[p].op = "pass"
        /\ \E e \in Targets(procs[q]) \ Targets(procs[p]) :
              /\ EntryVal(procs[q].data, e) # EntryVal(procs[q].snap, e)
              /\ EntryVal(load_history_data(histFile), e) # EntryVal(procs[q].data, e)

\* C12: an id that stays in overrides from the load of a reconciliation pass
\* on is not among the ids the pass evicts and is still in overrides after
\* each save of the pass, whether or not its poster files exist
C12_OverrideKept ==
    \A p \in Procs :
        procs[p].op = "pass" =>
            \A x \in procs[p].held :
                /\ InSeq(x, load_history_data(histFile).O)
                /\ IsDigitStr(x) => IntOfStr(x) \notin procs[p].evicted

\* a finished pass that evicted an id and saved, while a looked-up id whose
\* poster file is gone stayed in overrides throughout
C12_Witness ==
    \E p \in Procs :
        /\ procs[p].op = "pass" /\ procs[p].pc = "done" /\ procs[p].wrote
        /\ procs[p].evicted # {}
        /\ \E x \in procs[p].held :
              /\ IntOfStr(x) \in procs[p].done
              /\ ~check_file_exists(Item(IntOfStr(x)), procs[p].lib, "poster")

-----------------------------------------------------------------------------
(* Claims about the reconciliation pass, checked under SpecRecon: one      *)
(* request at a time, and the disk, the catalog and the layout style do    *)
(* not change                                                              *)

\* the pass of thread 1 has completed
PassDone == procs[1].op = "pass" /\ procs[1].pc = "done"

\* the ids whose downloads entry the pass loaded and the ledger no longer
\* holds as it was loaded
Dropped ==
    {k \in ItemKeys :
        /\ StrOfInt(k) \in DOMAIN procs[1].snap.D
        /\ EntryVal(load_history_data(histFile), <<"D", StrOfInt(k)>>)
              # procs[1].snap.D[StrOfInt(k)]}

\* every season of show k has its poster file
AllSeasonPosters(k) == \A i \in 1..Len(Item(k).seasons) : HasPoster(Item(k).seasons[i])

Backed(key) ==
    LET n == Len(key) - Len(s_bg)
    IN  IF IsDigitStr(key)
        THEN LET it == Item(IntOfStr(key)) IN check_file_exists(it, it.section, "poster")
        ELSE /\ n > 0
             /\ SubSeq(key, n + 1, Len(key)) = s_bg
             /\ IsDigitStr(SubSeq(key, 1, n))
             /\ LET it == Item(IntOfStr(SubSeq(key, 1, n)))
                IN  check_file_exists(it, it.section, "background")

\* C14: after a pass has completed with no other writer and no change of
\* the disk, every key of downloads, bare or suffixed, stands for an
\* existing artifact file under the current style
C14_DownloadsBacked ==
    (PassDone /\ ~procs[1].stale) =>
        \A key \in DOMAIN load_history_data(histFile).D : Backed(key)

\* C15: a pass that follows a pass over the same library, with the disk, the
\* catalog, the style and the ledger as the first pass left them, evicts
\* nothing, restores nothing, saves nothing, and leaves the ledger equal to
\* the ledger after the first pass
C15_SecondPassFixed ==
    (PassDone /\ procs[1].again) =>
        /\ procs[1].evicted = {} /\ procs[1].restored = {}
        /\ ~procs[1].wrote
        /\ load_history_data(histFile) = procs[1].snap

\* a second pass in succession after a first pass that did save
C15_Witness ==
    /\ PassDone /\ procs[1].again /\ procs[1].priorWrote
    /\ procs[1].done # {}

-----------------------------------------------------------------------------
(* Claims about the migration, checked under SpecMig *)

MigDone == mig.phase = "done"

\* a run that ended with every listing and every move it tried succeeding
MigClean == MigDone /\ ~mig.aborted /\ mig.failed = {}

\* C16: when the migration has returned because listing a library directory
\* failed, the persisted layout style is the one from before the request
C16_StyleKeptOnAbort ==
    (MigDone /\ mig.aborted) => cfgStyle = mig.style0

\* the items that have artifacts, and the canonical path of an artifact
ArtifactItems == {k \in ItemKeys : Item(k).type \in {"movie", "show", "season"}}
Canon(k, kind, style) == get_target_file_path(Item(k), Item(k).section, style, kind)

\* C17: after a migration that ended without error and the style set to its
\* target, every poster and background of a movie, show or season whose
\* canonical path under the previous style existed before the migration
\* exists at its canonical path under the target style
C17_ResolverAgrees ==
    MigClean =>
        \A k \in ArtifactItems, kind \in ImgTypes :
            Canon(k, kind, mig.style0) \in mig.before => Canon(k, kind, cfgStyle) \in disk

\* this run follows a run to the same target
SecondRun == MigDone /\ mig.prior.target = mig.target

AssetLaidOut(files) ==
    \A f \in files : \E k \in ArtifactItems, kind \in ImgTypes :
        f = Canon(k, kind, "ASSET_FOLDERS")

\* C20: after a run to Flat and then a run to AssetFolders, both without
\* error, over a tree laid out in AssetFolders style, an artifact has a
\* file at its AssetFolders canonical path exactly when it had one before
C20_RoundTrip ==
    (/\ MigClean /\ mig.target = "ASSET_FOLDERS"
     /\ mig.prior.target = "NO_ASSET_FOLDERS" /\ mig.prior.clean
     /\ AssetLaidOut(mig.prior.before)) =>
        \A k \in ArtifactItems, kind \in ImgTypes :
            Canon(k, kind, "ASSET_FOLDERS") \in disk
                <=> Canon(k, kind, "ASSET_FOLDERS") \in mig.prior.before

-----------------------------------------------------------------------------
(* Claims about what runs beside a migration, checked under SpecOverlap *)

\* the migration is between its start and the persisting of the new style
Migrating == mig.phase \in {"listing", "moving", "returning"}

\* the file moves have ended and the new style is not yet persisted
MovesEnded == mig.phase = "returning" \/ (mig.phase = "listing" /\ mig.libs = {})

\* a reconciliation pass holds its snapshot, or a sweep is inside its loops
PassRunning == \E p \in Procs : procs[p].op = "pass" /\ procs[p].pc \in {"loaded", "healed"}
SweepRunning == cron.phase = "running"

\* C21: while a migration runs, and in particular between the end of its
\* file moves and the persisting of the new style, no reconciliation pass
\* and no bulk-download sweep is running
C21_MigrationExclusive == Migrating => ~PassRunning /\ ~SweepRunning

-----------------------------------------------------------------------------
(* Claims about get_physical_folder_name, checked under SpecFolder *)

\* a Python str: a sequence of single characters
Alphabet ==
    {UpperChars[i] : i \in 1..Len(UpperChars)} \cup {LowerChars[i] : i \in 1..Len(LowerChars)}
    \cup {DigitChars[i] : i \in 1..Len(DigitChars)} \cup ForbiddenChars \cup Whitespace
    \cup {"_", ".", "-"}
IsStr(s) == \A i \in 1..Len(s) : s[i] \in Alphabet

\* the items the claim names: a movie or show whose locations are missing
\* (reading them raises) or empty, a season whose episodes cannot be listed
\* or whose first episode has no location
Degraded(item) ==
    \/ item.type \in {"movie", "show"} /\ (item.broken \/ item.locations = <<>>)
    \/ item.type = "season" /\ (item.broken \/ (item.episodes # <<>> /\ item.episodes[1] = <<>>))

\* C22: get_physical_folder_name returns a string for every item, and for a
\* movie, show or season whose locations are missing or empty, whose
\* episodes cannot be listed or whose first episode has no location that
\* string is the sentinel Unknown_Folder or Unknown_Type; nothing is raised.
C22_NeverRaises ==
    folder.called =>
        /\ IsStr(folder.name)
        /\ Degraded(folder.item) => folder.name \in {s_Unknown_Folder, s_Unknown_Type}

\* a season whose first episode has no location was resolved to Unknown_Folder
C22_Witness ==
    /\ folder.called /\ folder.item.type = "season" /\ ~folder.item.broken
    /\ folder.item.episodes = << <<>> >>
    /\ folder.name = s_Unknown_Folder

-----------------------------------------------------------------------------
(* Claims about backgrounds and the classifier, checked under SpecArt *)

\* C23: two disks that differ only in which background files exist give
\* every item the same status: the status taken on one of them is the
\* status on every disk that background files appearing and disappearing
\* make of it.
C23_BackgroundBlind ==
    status.item # 0 =>
        status.val = get_item_status(Item(status.item), Item(status.item).section)

\* a movie with its background on disk and no poster was classified missing
C23_Witness ==
    /\ status.item = 1 /\ ~Flagged(1) /\ ~HasPoster(1)
    /\ get_target_file_path(Item(1), LibMovies, "NONE", "background") \in disk
    /\ status.val = "missing"

-----------------------------------------------------------------------------
(* Claims about the bulk-download job, checked under SpecCron *)

\* C24: a sweep downloads nothing for the artifacts that the sweep before
\* it wrote (the style and the catalog being the same), and a sweep never
\* writes to a path that existed when it checked it.
C24_SweepIdempotent ==
    /\ cron.runs >= 2 => cron.wrote \cap cron.prior = {}
    /\ (cron.last.by = "cron" /\ cron.last.http = 200) => ~cron.last.existed

\* a second sweep has ended that passed over everything the first one wrote
C24_Witness ==
    /\ cron.runs = 2 /\ cron.phase = "done"
    /\ cron.prior # {} /\ cron.prior \subseteq cron.skipped
    /\ cron.wrote = {}

-----------------------------------------------------------------------------
(* Claims about authentication, checked under SpecAuth *)

\* C25: with authentication enabled and an account configured, a request
\* that carries no logged-in session leaves the persisted configuration
\* (server URL, root, style, schedule, username, password hash) as it was
\* and starts no migration.
C25_NoSessionNoChange ==
    (web.last.endpoint # "none" /\ web.last.guarded /\ ~web.last.session) =>
        /\ Persisted = web.last.before
        /\ ~web.last.migrated

-----------------------------------------------------------------------------
(* Claims about a failed lookup during reconciliation, checked under SpecLookup *)

\* C26: after a pass whose lookup of the ledger's ids failed, every downloads
\* entry the pass loaded still holds the URL it held; none holds the
\* placeholder in place of a source URL.
C26_FailedLookupKeepsUrls ==
    (PassDone /\ ~procs[1].ok) =>
        \A key \in DOMAIN procs[1].snap.D :
            EntryVal(load_history_data(histFile), <<"D", key>>) = procs[1].snap.D[key]

-----------------------------------------------------------------------------
(* Claims about fetches and the ledger, checked under SpecFetch *)

\* C27: a request of the download route or a turn of the sweep changes the
\* ledger only when the item resolved to a path and the fetch answered 200,
\* and then the file is on disk at that path when the entry is recorded;
\* when the fetch raises or answers another status, or the item does not
\* resolve, the ledger file is as it was.
C27_RecordAfterFetch ==
    cron.last.by # "none" =>
        /\ cron.last.after # cron.last.before =>
              cron.last.http = 200 /\ cron.last.resolved /\ cron.last.onDisk
        /\ (cron.last.http # 200 \/ ~cron.last.resolved) =>
              cron.last.after = cron.last.before

\* the download route recorded a background after a fetch that answered 200
C27_Witness ==
    /\ cron.last.by = "download" /\ cron.last.http = 200 /\ cron.last.kind = "background"
    /\ cron.last.after # cron.last.before
    /\ cron.last.key \o s_bg \in DOMAIN cron.last.after.D
    /\ cron.last.path \in disk

-----------------------------------------------------------------------------
(* Claims about pairs of artifacts, checked under SpecPairs *)

\* the movie or show whose folder name an artifact's path is built from
Owner(x) == IF Item(x[1]).type = "season" THEN Item(Item(x[1]).parentKey) ELSE Item(x[1])
OwnerName(x) == get_physical_folder_name(Owner(x))

\* the claim's proviso for a pair: two different movies or shows have
\* different folder names, two seasons of one show different indices
DistinctNames(x, y) ==
    /\ Owner(x).ratingKey # Owner(y).ratingKey => OwnerName(x) # OwnerName(y)
    /\ (x[1] # y[1] /\ Owner(x).ratingKey = Owner(y).ratingKey
           /\ Item(x[1]).type = "season" /\ Item(y[1]).type = "season")
          => Item(x[1]).index # Item(y[1]).index

\* what the Flat style appends to a folder name: the background suffix, and
\* for the seasons of the catalog _SeasonNN with or without it
FlatSuffixes ==
    {s_background_suffix}
    \cup {<<"_">> \o s_Season \o Format02d(Item(k).index) \o sfx :
             k \in {i \in PairItems : Item(i).type = "season"},
             sfx \in {<<>>, s_background_suffix}}

\* one folder name is the other followed by something the Flat style appends
NameExtends(x, y) ==
    \E sfx \in FlatSuffixes :
        OwnerName(x) = OwnerName(y) \o sfx \/ OwnerName(y) = OwnerName(x) \o sfx

\* C28 as stated: two distinct (item, kind) pairs of one library whose
\* movies and shows have distinct folder names never resolve to the same
\* path under one style
C28_NoCollision ==
    (pair.called /\ DistinctNames(pair.a, pair.b) /\ pair.pa # <<>>) => pair.pa # pair.pb

\* C28 amended: under AssetFolders they never resolve to the same path;
\* under Flat they never do unless one folder name is another folder name
\* followed by _background, _SeasonNN or _SeasonNN_background
C28_NoCollisionUnlessExtended ==
    (pair.called /\ DistinctNames(pair.a, pair.b) /\ pair.pa # <<>>
       /\ ~(pair.style = "NO_ASSET_FOLDERS" /\ NameExtends(pair.a, pair.b)))
        => pair.pa # pair.pb

\* the poster and the background of one movie were resolved under Flat to
\* two paths
C28_Witness ==
    /\ pair.called /\ pair.style = "NO_ASSET_FOLDERS"
    /\ pair.a = <<1, "poster">> /\ pair.b = <<1, "background">>
    /\ pair.pa # <<>> /\ pair.pb # <<>> /\ pair.pa # pair.pb

-----------------------------------------------------------------------------
(* Claims about the overrides list, checked under SpecSeq *)

\* C29: from the empty ledger, after any sequence of toggles, saves and
\* reconciliation passes run one at a time, no id is in the overrides list
\* more than once, and an id that the latest toggle took out is not a member.
C29_NoDuplicateOverride ==
    LET O == load_history_data(histFile).O
    IN  /\ \A i, j \in 1..Len(O) : i # j => O[i] # O[j]
        /\ (last.op = "toggle" /\ ~last.ret) => ~InSeq(last.key, O)

\* a toggle took an id out of a list of two after a pass had run, and the
\* other id is still flagged
C29_Witness ==
    /\ last.op = "toggle" /\ ~last.ret /\ Len(last.before.O) = 2
    /\ PassDone
    /\ Len(load_history_data(histFile).O) = 1

-----------------------------------------------------------------------------
(* Claims about the scheduler, checked under SpecSched *)

\* C30: the loop starts the job at most once on a calendar date, however
\* the schedule is changed during that date, and every start happened with
\* the schedule enabled, the clock's HH:MM equal to the configured time and
\* the configured day DAILY or the weekday of that date.
C30_OncePerDate ==
    /\ \A i, j \in 1..Len(sched.starts) :
          i # j => sched.starts[i].date # sched.starts[j].date
    /\ \A i \in 1..Len(sched.starts) :
          LET st == sched.starts[i]
          IN  /\ st.enabled
              /\ st.at = st.time
              /\ st.day = "DAILY" \/ st.day = st.on

\* the job ran on the first date at 03:00, the configured time was then
\* moved to 03:02, that minute has come on the same date with the loop
\* awake, and there is still the one start
C30_Witness ==
    /\ Len(sched.starts) = 1 /\ sched.starts[1].date = 1
    /\ sched.starts[1].at = <<"0", "3", ":", "0", "0">>
    /\ sched.date = 1 /\ sched.enabled /\ sched.day = "DAILY"
    /\ sched.time = <<"0", "3", ":", "0", "2">>
    /\ current_time_of(sched.tick) = sched.time
    /\ sched.pc = "sleeping" /\ sched.wake = instant(sched.date, sched.tick) + 1

=============================================================================
